---- MODULE Spec2Model ----
(***************************************************************************)
(* Student Finance Tracker: the persistence store (scripts/storage.js),    *)
(* the validators (scripts/validators.js), the state manager               *)
(* (scripts/state.js) and the import/settings handlers of the coordinator  *)
(* (scripts/app.js), as a state machine over the browser's localStorage.   *)
(*                                                                         *)
(* JavaScript strings are sequences of one-character strings, so that      *)
(* trim(), includes() and the regular expressions are computed.  Numbers   *)
(* are integers counted in thousandths (12.5 is 12500), with NaN and       *)
(* Infinity as values of their own.                                        *)
(***************************************************************************)
EXTENDS Integers, Sequences, FiniteSets, TLC

(***************************************************************************)
(* JavaScript values                                                       *)
(***************************************************************************)
\* A value: t is "string" | "number" | "NaN" | "Infinity" | "undefined" |
\* "null" | "absent" (the property is not in the object); s the characters
\* of a string; n the thousandths of a finite number.
JStr(chars) == [t |-> "string", s |-> chars, n |-> 0]
JNum(thousandths) == [t |-> "number", s |-> <<>>, n |-> thousandths]
JNaN == [t |-> "NaN", s |-> <<>>, n |-> 0]
JInfinity == [t |-> "Infinity", s |-> <<>>, n |-> 0]
JUndefined == [t |-> "undefined", s |-> <<>>, n |-> 0]
JNull == [t |-> "null", s |-> <<>>, n |-> 0]
JAbsent == [t |-> "absent", s |-> <<>>, n |-> 0]

\* typeof v
TypeOf(v) ==
    CASE v.t = "string" -> "string"
      [] v.t \in {"number", "NaN", "Infinity"} -> "number"
      [] v.t \in {"undefined", "absent"} -> "undefined"
      [] OTHER -> "object"

Digits == {"0", "1", "2", "3", "4", "5", "6", "7", "8", "9"}
Letters ==
    {"a", "b", "c", "d", "e", "f", "g", "h", "i", "j", "k", "l", "m", "n", "o", "p", "q",
     "r", "s", "t", "u", "v", "w", "x", "y", "z", "A", "B", "C", "D", "E", "F", "G", "H",
     "I", "J", "K", "L", "M", "N", "O", "P", "Q", "R", "S", "T", "U", "V", "W", "X", "Y", "Z"}
\* the characters \s matches and trim() strips
\* the byte order mark U+FEFF, one character
BOM == "BOM"
WhiteSpace == {" ", "\n", "\t", "\r", BOM}
\* the characters the regular expression dot does not match
LineTerminators == {"\n", "\r"}

DigitVal(c) ==
    CASE c = "0" -> 0 [] c = "1" -> 1 [] c = "2" -> 2 [] c = "3" -> 3
      [] c = "4" -> 4 [] c = "5" -> 5 [] c = "6" -> 6 [] c = "7" -> 7
      [] c = "8" -> 8 [] c = "9" -> 9

DigitChar(d) == <<"0", "1", "2", "3", "4", "5", "6", "7", "8", "9">>[d + 1]

\* String.prototype.trim
RECURSIVE TrimLeft(_)
TrimLeft(s) ==
    IF s = <<>> THEN <<>>
    ELSE IF Head(s) \in WhiteSpace THEN TrimLeft(Tail(s)) ELSE s

RECURSIVE TrimRight(_)
TrimRight(s) ==
    IF s = <<>> THEN <<>>
    ELSE IF s[Len(s)] \in WhiteSpace THEN TrimRight(SubSeq(s, 1, Len(s) - 1)) ELSE s

Trim(s) == TrimRight(TrimLeft(s))

\* String.prototype.includes('  ')
IncludesDoubleSpace(s) == \E i \in 1..(Len(s) - 1) : s[i] = " " /\ s[i + 1] = " "

\* the decimal digits of a natural number, as Number.prototype.toString writes them
RECURSIVE NatToChars(_)
NatToChars(k) ==
    IF k < 10 THEN <<DigitChar(k)>>
    ELSE NatToChars(k \div 10) \o <<DigitChar(k % 10)>>

\* the fraction of a finite number of thousandths, trailing zeros dropped
FractionChars(m) ==
    IF m = 0 THEN <<>>
    ELSE IF m % 100 = 0 THEN <<".", DigitChar(m \div 100)>>
    ELSE IF m % 10 = 0 THEN <<".", DigitChar(m \div 100), DigitChar((m \div 10) % 10)>>
    ELSE <<".", DigitChar(m \div 100), DigitChar((m \div 10) % 10), DigitChar(m % 10)>>

\* value.toString() of a number or a string
ToStringChars(v) ==
    CASE v.t = "string" -> v.s
      [] v.t = "NaN" -> <<"N", "a", "N">>
      [] v.t = "Infinity" -> <<"I", "n", "f", "i", "n", "i", "t", "y">>
      [] v.t = "number" ->
            IF v.n < 0
            THEN <<"-">> \o NatToChars((0 - v.n) \div 1000) \o FractionChars((0 - v.n) % 1000)
            ELSE NatToChars(v.n \div 1000) \o FractionChars(v.n % 1000)
      [] OTHER -> <<>>

(***************************************************************************)
(* Validators (scripts/validators.js)                                      *)
(***************************************************************************)
AllDigits(s) == \A i \in 1..Len(s) : s[i] \in Digits

\* the position of the first "." of s, 0 when there is none
DotPos(s) ==
    IF \E i \in 1..Len(s) : s[i] = "."
    THEN CHOOSE i \in 1..Len(s) : s[i] = "." /\ \A j \in 1..(i - 1) : s[j] # "."
    ELSE 0

\* patterns.description: /^\S(?:.*\S)?$/
PatternDescription(s) ==
    /\ Len(s) >= 1
    /\ s[1] \notin WhiteSpace
    /\ s[Len(s)] \notin WhiteSpace
    /\ \A i \in 2..(Len(s) - 1) : s[i] \notin LineTerminators

\* patterns.amount: /^(0|[1-9]\d*)(\.\d{1,2})?$/
PatternAmount(s) ==
    LET dot == DotPos(s)
        int == IF dot = 0 THEN s ELSE SubSeq(s, 1, dot - 1)
        frac == IF dot = 0 THEN <<>> ELSE SubSeq(s, dot + 1, Len(s))
    IN  /\ Len(int) >= 1
        /\ AllDigits(int)
        /\ int = <<"0">> \/ int[1] # "0"
        /\ dot # 0 => (Len(frac) \in {1, 2} /\ AllDigits(frac))

\* patterns.date: /^\d{4}-(0[1-9]|1[0-2])-(0[1-9]|[12]\d|3[01])$/
PatternDate(s) ==
    /\ Len(s) = 10
    /\ AllDigits(SubSeq(s, 1, 4))
    /\ s[5] = "-"
    /\ \/ s[6] = "0" /\ s[7] \in (Digits \ {"0"})
       \/ s[6] = "1" /\ s[7] \in {"0", "1", "2"}
    /\ s[8] = "-"
    /\ \/ s[9] = "0" /\ s[10] \in (Digits \ {"0"})
       \/ s[9] \in {"1", "2"} /\ s[10] \in Digits
       \/ s[9] = "3" /\ s[10] \in {"0", "1"}

\* patterns.category: /^[A-Za-z]+(?:[ -][A-Za-z]+)*$/
PatternCategory(s) ==
    /\ Len(s) >= 1
    /\ \A i \in 1..Len(s) : s[i] \in Letters \cup {" ", "-"}
    /\ s[1] \in Letters
    /\ s[Len(s)] \in Letters
    /\ \A i \in 1..(Len(s) - 1) : ~(s[i] \in {" ", "-"} /\ s[i + 1] \in {" ", "-"})

RECURSIVE CharsToNat(_)
CharsToNat(s) ==
    IF s = <<>> THEN 0
    ELSE 10 * CharsToNat(SubSeq(s, 1, Len(s) - 1)) + DigitVal(s[Len(s)])

\* parseFloat of a string the amount pattern matches, in thousandths
ParseAmount(s) ==
    LET dot == DotPos(s)
        int == IF dot = 0 THEN s ELSE SubSeq(s, 1, dot - 1)
        frac == IF dot = 0 THEN <<>> ELSE SubSeq(s, dot + 1, Len(s))
    IN  1000 * CharsToNat(int)
          + (IF Len(frac) = 1 THEN 100 * CharsToNat(frac)
             ELSE IF Len(frac) = 2 THEN 10 * CharsToNat(frac) ELSE 0)

\* the largest amount validateAmount accepts, 999999.99, in thousandths
MaxAmountThousandths == 999999990

validateDescription(value) ==
    /\ value.t = "string"
    /\ value.s # <<>>
    /\ Len(Trim(value.s)) # 0
    /\ value.s = Trim(value.s)
    /\ ~IncludesDoubleSpace(value.s)
    /\ PatternDescription(value.s)

validateAmount(value) ==
    /\ value.t \in {"string", "number", "NaN", "Infinity"}
    /\ ~(value.t = "string" /\ value.s = <<>>)
    /\ PatternAmount(ToStringChars(value))
    /\ ParseAmount(ToStringChars(value)) <= MaxAmountThousandths

IsLeapYear(y) == (y % 4 = 0 /\ y % 100 # 0) \/ y % 400 = 0

DaysInMonth(y, m) ==
    IF m = 2 THEN (IF IsLeapYear(y) THEN 29 ELSE 28)
    ELSE IF m \in {4, 6, 9, 11} THEN 30 ELSE 31

\* new Date("YYYY-MM-DD"): midnight UTC of that day; a day past the end of the
\* month is no date (ok = FALSE; an engine that rolls it over into the next
\* month instead yields another month, and the same verdict below).
DateFromISO(s) ==
    LET y == CharsToNat(SubSeq(s, 1, 4))
        m == CharsToNat(SubSeq(s, 6, 7))
        d == CharsToNat(SubSeq(s, 9, 10))
    IN  [ok |-> d <= DaysInMonth(y, m), y |-> y, m |-> m, d |-> d]

\* getFullYear/getMonth/getDate of midnight UTC on a host whose clock is
\* offset hours east of UTC (-12..14): west of UTC it is still the day before
LocalDate(date, offset) ==
    IF offset >= 0 THEN date
    ELSE IF date.d > 1 THEN [date EXCEPT !.d = date.d - 1]
    ELSE IF date.m > 1
         THEN [date EXCEPT !.m = date.m - 1, !.d = DaysInMonth(date.y, date.m - 1)]
    ELSE [date EXCEPT !.y = date.y - 1, !.m = 12, !.d = 31]

isValidDate(dateString, offset) ==
    LET date == DateFromISO(dateString)
        local == LocalDate(date, offset)
    IN  /\ date.ok
        /\ local.y = date.y
        /\ local.m = date.m
        /\ local.d = date.d

validateDate(value, offset) ==
    /\ value.t = "string"
    /\ value.s # <<>>
    /\ PatternDate(value.s)
    /\ isValidDate(value.s, offset)

validateCategory(value) ==
    /\ value.t = "string"
    /\ value.s # <<>>
    /\ Len(Trim(value.s)) # 0
    /\ PatternCategory(Trim(value.s))

(***************************************************************************)
(* Transactions: an element of a transaction list is an object with the    *)
(* seven fields (each possibly absent), null, or a primitive.              *)
(***************************************************************************)
RequiredFields == {"id", "description", "amount", "category", "date", "createdAt", "updatedAt"}

HasAllFields(t) == \A f \in RequiredFields : t[f].t # "absent"

\* Validators.validateTransaction(transaction).valid
ValidatorsValidateTransaction(t, offset) ==
    /\ t.kind = "object"
    /\ HasAllFields(t)
    /\ validateDescription(t.description)
    /\ validateAmount(t.amount)
    /\ validateCategory(t.category)
    /\ validateDate(t.date, offset)

\* StorageManager.validateTransaction(transaction) throws a TypeError: the
\* `in` operator applied to null or to a primitive
StoreValidateThrows(t) == t.kind # "object"

\* the date pattern of StorageManager.validateTransaction, applied to the
\* value as RegExp.prototype.test converts it to a string
StoreDateTest(value) ==
    /\ value.t \in {"string", "number"}
    /\ PatternDate(ToStringChars(value))

\* StorageManager.validateTransaction(transaction), for an object
StoreValidateTransaction(t) ==
    /\ HasAllFields(t)
    /\ t.id.t = "string" /\ Trim(t.id.s) # <<>>
    /\ t.description.t = "string" /\ Trim(t.description.s) # <<>>
    /\ TypeOf(t.amount) = "number" /\ t.amount.t # "NaN"
    /\ ~(t.amount.t = "number" /\ t.amount.n < 0)
    /\ t.category.t = "string" /\ Trim(t.category.s) # <<>>
    /\ StoreDateTest(t.date)
    \* new Date(createdAt), new Date(updatedAt): never throw for these values

\* transactions.filter(t => this.validateTransaction(t))
FilterValid(items) == SelectSeq(items, StoreValidateTransaction)

AnyThrows(items) == \E i \in 1..Len(items) : StoreValidateThrows(items[i])

(***************************************************************************)
(* JSON: a stored document is the text JSON.stringify wrote, held as the   *)
(* value JSON.parse reads back from it.                                    *)
(***************************************************************************)
\* JSON.stringify of a property value: undefined is left out, NaN and
\* Infinity are written as null
JsonValue(v) ==
    CASE v.t = "undefined" -> JAbsent
      [] v.t \in {"NaN", "Infinity"} -> JNull
      [] OTHER -> v

JsonElement(t) ==
    IF t.kind # "object" THEN t
    ELSE [kind |-> "object",
          id |-> JsonValue(t.id),
          description |-> JsonValue(t.description),
          amount |-> JsonValue(t.amount),
          category |-> JsonValue(t.category),
          date |-> JsonValue(t.date),
          createdAt |-> JsonValue(t.createdAt),
          updatedAt |-> JsonValue(t.updatedAt)]

\* JSON.parse(JSON.stringify(items))
JsonItems(items) == [i \in 1..Len(items) |-> JsonElement(items[i])]

\* the number of characters of the text of a value (indentation not counted)
ValueLen(v) ==
    CASE v.t = "string" -> Len(v.s) + 2
      [] v.t = "number" -> Len(ToStringChars(v))
      [] v.t = "null" -> 4
      [] OTHER -> 0

ElementLen(t) ==
    IF t.kind = "null" THEN 4
    ELSE IF t.kind = "primitive" THEN 1
    ELSE 2 + (IF t.id.t = "absent" THEN 0 ELSE 6 + ValueLen(t.id))
           + (IF t.description.t = "absent" THEN 0 ELSE 15 + ValueLen(t.description))
           + (IF t.amount.t = "absent" THEN 0 ELSE 10 + ValueLen(t.amount))
           + (IF t.category.t = "absent" THEN 0 ELSE 12 + ValueLen(t.category))
           + (IF t.date.t = "absent" THEN 0 ELSE 8 + ValueLen(t.date))
           + (IF t.createdAt.t = "absent" THEN 0 ELSE 13 + ValueLen(t.createdAt))
           + (IF t.updatedAt.t = "absent" THEN 0 ELSE 13 + ValueLen(t.updatedAt))

RECURSIVE ItemsLen(_)
ItemsLen(items) ==
    IF items = <<>> THEN 0 ELSE ElementLen(Head(items)) + 1 + ItemsLen(Tail(items))

\* dataString.length
TextLen(items) == 2 + ItemsLen(items)

\* the document under a key: kind is "absent" (getItem gives null), "empty"
\* (the empty string), "garbage" (text JSON.parse rejects), "nonlist" (text of
\* a value that is no array) or "list" (text of the array items)
AbsentDoc == [kind |-> "absent", items |-> <<>>]
ListDoc(items) == [kind |-> "list", items |-> items]

\* the characters a document takes in the store, its key included
DocFootprint(doc, keyLen) ==
    CASE doc.kind = "absent" -> 0
      [] doc.kind = "empty" -> keyLen
      [] doc.kind = "garbage" -> keyLen + 1
      [] doc.kind = "nonlist" -> keyLen + 2
      [] OTHER -> keyLen + TextLen(doc.items)

\* 'finance_tracker_transactions'.length
TransactionsKeyLen == 28
\* ('storage_test_' + Date.now()).length
TestKeyLen == 26

(***************************************************************************)
(* Settings.  An object has the five settings keys, each possibly absent,  *)
(* and possibly a key the application does not know (extra).               *)
(*   exchangeRates: kind "absent" | "null" | "string" | "object", with the *)
(*     value under each currency code (absent when the code is no key);    *)
(*   categories: kind "absent" | "string" | "array", with the elements.    *)
(***************************************************************************)
Currencies == {"EUR", "GBP", "JPY"}

Rates(eur, gbp, jpy) == [kind |-> "object", EUR |-> eur, GBP |-> gbp, JPY |-> jpy]
NoRates(kind) == [kind |-> kind, EUR |-> JAbsent, GBP |-> JAbsent, JPY |-> JAbsent]
Categories(items) == [kind |-> "array", items |-> items]
NoCategories(kind) == [kind |-> kind, items |-> <<>>]

USD == <<"U", "S", "D">>
Light == <<"l", "i", "g", "h", "t">>
Dark == <<"d", "a", "r", "k">>
Food == <<"F", "o", "o", "d">>
Books == <<"B", "o", "o", "k", "s">>
Transport == <<"T", "r", "a", "n", "s", "p", "o", "r", "t">>
Entertainment == <<"E", "n", "t", "e", "r", "t", "a", "i", "n", "m", "e", "n", "t">>
Fees == <<"F", "e", "e", "s">>
Other == <<"O", "t", "h", "e", "r">>

\* getDefaultSettings()
getDefaultSettings ==
    [baseCurrency |-> JStr(USD),
     exchangeRates |-> Rates(JNum(850), JNum(750), JAbsent),
     categories |-> Categories(<<JStr(Food), JStr(Books), JStr(Transport),
                                 JStr(Entertainment), JStr(Fees), JStr(Other)>>),
     spendingCap |-> JNull,
     theme |-> JStr(Light),
     extra |-> FALSE]

\* a value is truthy
Truthy(v) ==
    CASE v.t = "string" -> v.s # <<>>
      [] v.t = "number" -> v.n # 0
      [] v.t = "Infinity" -> TRUE
      [] OTHER -> FALSE

\* typeof rate === 'number' && rate > 0 && isFinite(rate)
RateOk(rate) == rate.t = "number" /\ rate.n > 0

ValidRate(rate) == IF RateOk(rate) THEN rate ELSE JAbsent

\* typeof cat === 'string' && cat.trim() !== ''
CategoryOk(cat) == cat.t = "string" /\ Trim(cat.s) # <<>>

\* validateSettings(settings)
validateSettings(settings) ==
    LET defaults == getDefaultSettings
    IN  [baseCurrency |->
            IF Truthy(settings.baseCurrency) /\ settings.baseCurrency.t = "string"
            THEN settings.baseCurrency ELSE defaults.baseCurrency,
         exchangeRates |->
            IF settings.exchangeRates.kind = "object"
            THEN Rates(ValidRate(settings.exchangeRates.EUR),
                       ValidRate(settings.exchangeRates.GBP),
                       ValidRate(settings.exchangeRates.JPY))
            ELSE defaults.exchangeRates,
         categories |->
            IF settings.categories.kind = "array"
            THEN Categories(SelectSeq(settings.categories.items, CategoryOk))
            ELSE defaults.categories,
         spendingCap |->
            IF \/ settings.spendingCap.t = "number" /\ settings.spendingCap.n > 0
               \/ settings.spendingCap.t = "Infinity"
            THEN settings.spendingCap ELSE defaults.spendingCap,
         theme |->
            IF settings.theme.t = "string" /\ settings.theme.s \in {Light, Dark}
            THEN settings.theme ELSE defaults.theme,
         extra |-> FALSE]

\* JSON.parse(JSON.stringify(settings))
JsonSettings(settings) ==
    [baseCurrency |-> JsonValue(settings.baseCurrency),
     exchangeRates |->
        IF settings.exchangeRates.kind # "object" THEN settings.exchangeRates
        ELSE Rates(JsonValue(settings.exchangeRates.EUR),
                   JsonValue(settings.exchangeRates.GBP),
                   JsonValue(settings.exchangeRates.JPY)),
     categories |->
        IF settings.categories.kind # "array" THEN settings.categories
        ELSE Categories([i \in 1..Len(settings.categories.items) |->
                            IF settings.categories.items[i].t \in {"undefined", "NaN", "Infinity"}
                            THEN JNull ELSE settings.categories.items[i]]),
     spendingCap |-> JsonValue(settings.spendingCap),
     theme |-> JsonValue(settings.theme),
     extra |-> settings.extra]

\* { ...base, ...over }: a key of over replaces that of base
Spread(base, over) ==
    [baseCurrency |->
        IF over.baseCurrency.t = "absent" THEN base.baseCurrency ELSE over.baseCurrency,
     exchangeRates |->
        IF over.exchangeRates.kind = "absent" THEN base.exchangeRates ELSE over.exchangeRates,
     categories |->
        IF over.categories.kind = "absent" THEN base.categories ELSE over.categories,
     spendingCap |->
        IF over.spendingCap.t = "absent" THEN base.spendingCap ELSE over.spendingCap,
     theme |-> IF over.theme.t = "absent" THEN base.theme ELSE over.theme,
     extra |-> base.extra \/ over.extra]

\* the settings document: kind "absent" | "garbage" | "object", with the
\* object its text parses to
AbsentSettingsDoc == [kind |-> "absent", value |-> getDefaultSettings]
SettingsDoc(value) == [kind |-> "object", value |-> value]

\* loadSettings()
loadSettings(doc) ==
    IF doc.kind = "object" THEN Spread(getDefaultSettings, doc.value)
    ELSE getDefaultSettings

RECURSIVE ValuesLen(_)
ValuesLen(values) ==
    IF values = <<>> THEN 0 ELSE ValueLen(Head(values)) + 1 + ValuesLen(Tail(values))

\* the number of characters of the text of a settings object
SettingsLen(settings) ==
    2 + 15 + ValueLen(settings.baseCurrency)
      + 16 + (IF settings.exchangeRates.kind # "object" THEN 4
              ELSE 2 + ValueLen(settings.exchangeRates.EUR)
                     + ValueLen(settings.exchangeRates.GBP)
                     + ValueLen(settings.exchangeRates.JPY))
      + 13 + (IF settings.categories.kind # "array" THEN 4
              ELSE 2 + ValuesLen(settings.categories.items))
      + 14 + ValueLen(settings.spendingCap)
      + 8 + ValueLen(settings.theme)

\* 'finance_tracker_settings'.length
SettingsKeyLen == 24
\* 'finance_tracker_version'.length
VersionKeyLen == 23
\* ('finance_tracker_transactions_backup_' + Date.now()).length
BackupKeyLen == 49

SettingsFootprint(doc) ==
    CASE doc.kind = "absent" -> 0
      [] doc.kind = "garbage" -> SettingsKeyLen + 1
      [] OTHER -> SettingsKeyLen + SettingsLen(doc.value)

(***************************************************************************)
(* State                                                                   *)
(***************************************************************************)
VARIABLES
    txDoc,        \* localStorage['finance_tracker_transactions']
    settingsDoc,  \* localStorage['finance_tracker_settings']
    versionDoc,   \* localStorage['finance_tracker_version'], <<>> when absent
    backups,      \* the backup keys: timestamp suffix -> the snapshot stored
    quota,        \* the characters localStorage can hold in all
    clock,        \* Date.now()
    tzOffset,     \* the host's clock, hours east of UTC
    memTx,        \* StateManager.transactions
    memSettings,  \* StateManager.settings
    ret,          \* what the latest call returned or threw
    lastSaved,    \* the argument of the latest saveTransactions that returned
    created,      \* the timestamp suffixes of the backups created so far
    searchHistory,  \* SearchManager.searchHistory
    lastCompiled,   \* SearchManager.lastCompiledPattern, lastFlags, lastCompiledRegex
    searchError,    \* the message in the #search-error element, <<>> when none
    searchUses,     \* per history entry: the successful searches since its insertion
    statsCache,     \* StatsManager.cache: key -> [data, timestamp]
    observers,      \* StateManager.observers: event -> the callbacks subscribed
    announcers,     \* #status-announcer, #alert-announcer: textContent, and when set
    timers          \* the setTimeout callbacks pending: announcer and due time

storeVars == <<txDoc, settingsDoc, versionDoc, backups>>
hostVars == <<quota, tzOffset>>
memVars == <<memTx, memSettings>>
searchVars == <<searchHistory, lastCompiled, searchError, searchUses>>
notifyVars == <<observers, announcers, timers>>
engineVars == <<searchVars, statsCache, notifyVars>>
vars == <<txDoc, settingsDoc, versionDoc, backups, quota, clock, tzOffset, memTx,
          memSettings, ret, lastSaved, created, searchHistory, lastCompiled, searchError,
          searchUses, statsCache, observers, announcers, timers>>

\* errors, by name and message
NoError == [name |-> "", message |-> ""]
NotArrayError == [name |-> "Error", message |-> "Transactions must be an array"]
InOperatorTypeError == [name |-> "TypeError", message |-> "Cannot use 'in' operator"]
QuotaExceededError == [name |-> "QuotaExceededError", message |-> "The quota has been exceeded."]
SecurityError == [name |-> "SecurityError", message |-> "The operation is insecure."]
SaveQuotaError ==
    [name |-> "Error", message |-> "Storage quota exceeded. Please export and clear old data."]
StorageTestError(cause) ==
    [name |-> "Error", message |-> "Storage test failed: " \o cause.message]

\* what a call returned, or what it threw; for a call that threw because a
\* write to localStorage threw: storeError is the name of what setItem threw
\* and stage the write it was, "probe" (the test key) or "commit"
Returned(op, value) ==
    [op |-> op, status |-> "ok", error |-> NoError, storeError |-> "", stage |-> "",
     value |-> value]
Threw(op, error, storeError, stage) ==
    [op |-> op, status |-> "throw", error |-> error, storeError |-> storeError,
     stage |-> stage, value |-> <<>>]

\* localStorage.setItem(key, text) of len characters (the key's included),
\* replacing replaced characters: the error it throws, NoError when it
\* stores; fault is an I/O failure of the host at this write
SetItemError(used, replaced, len, q, fault) ==
    IF fault THEN SecurityError
    ELSE IF used - replaced + len > q THEN QuotaExceededError
    ELSE NoError

\* checkStorageSpace with a catch that wraps whatever was thrown
CheckStorageSpaceWrapsAll(error) ==
    IF error = NoError THEN NoError ELSE StorageTestError(error)

\* checkStorageSpace(dataString), given what the setItem of its test key
\* threw: the error it throws, NoError when it returns (the test key removed)
CheckStorageSpace(error) ==
    IF error = NoError THEN NoError
    ELSE IF error.name = "QuotaExceededError" THEN error
    ELSE StorageTestError(error)

\* the catch block of saveTransactions: what it throws for a caught error
SaveCatch(error) ==
    IF error.name = "QuotaExceededError" THEN SaveQuotaError ELSE error

\* saveTransactions(arg) over the document doc in a store with used
\* characters in use of q: the document afterwards and what the call returned
\* or threw.  fault is "probe" or "commit" when the host fails that write for
\* a reason other than capacity, "none" otherwise.
SaveTransactionsResult(arg, fault, doc, used, q) ==
    IF ~arg.isArray
    THEN [doc |-> doc, ret |-> Threw("saveTransactions", SaveCatch(NotArrayError), "", "")]
    ELSE IF AnyThrows(arg.items)
    THEN [doc |-> doc,
          ret |-> Threw("saveTransactions", SaveCatch(InOperatorTypeError), "", "")]
    ELSE
      LET validTransactions == FilterValid(arg.items)
          dataString == JsonItems(validTransactions)
          len == TextLen(dataString)
          testSet == SetItemError(used, 0, TestKeyLen + len, q, fault = "probe")
          probe == CheckStorageSpace(testSet)
          commit == SetItemError(used, DocFootprint(doc, TransactionsKeyLen),
                                 TransactionsKeyLen + len, q, fault = "commit")
      IN  IF probe # NoError
          THEN [doc |-> doc,
                ret |-> Threw("saveTransactions", SaveCatch(probe), testSet.name, "probe")]
          ELSE IF commit # NoError
          THEN [doc |-> doc,
                ret |-> Threw("saveTransactions", SaveCatch(commit), commit.name, "commit")]
          ELSE [doc |-> ListDoc(dataString), ret |-> Returned("saveTransactions", <<>>)]

\* loadTransactions(): the list it returns (it catches whatever is thrown)
LoadTransactionsResult(doc) ==
    IF doc.kind # "list" THEN <<>>
    ELSE IF AnyThrows(doc.items) THEN <<>>
    ELSE FilterValid(doc.items)

(***************************************************************************)
(* Sample values the inputs are drawn from                                 *)
(***************************************************************************)
Date20251015 == <<"2", "0", "2", "5", "-", "1", "0", "-", "1", "5">>
Date20250230 == <<"2", "0", "2", "5", "-", "0", "2", "-", "3", "0">>
Date20251301 == <<"2", "0", "2", "5", "-", "1", "3", "-", "0", "1">>
IsoStamp == <<"2", "0", "2", "5", "-", "1", "0", "-", "1", "5", "T", "0", "8", ":", "0", "0", "Z">>

Txn(id, description, amount, category, date) ==
    [kind |-> "object", id |-> JStr(id), description |-> JStr(description),
     amount |-> amount, category |-> JStr(category), date |-> JStr(date),
     createdAt |-> JStr(IsoStamp), updatedAt |-> JStr(IsoStamp)]

Lunch == Txn(<<"t", "1">>, <<"L", "u", "n", "c", "h">>, JNum(12500), Food, Date20251015)
Novel == Txn(<<"t", "2">>, <<"a", " ", "b">>, JNum(0), Books, Date20251015)
NullElement == [Lunch EXCEPT !.kind = "null"]
PrimitiveElement == [Lunch EXCEPT !.kind = "primitive"]

\* records that differ from Lunch in one field
LeadingSpace == [Lunch EXCEPT !.description = JStr(<<" ", "x">>)]
DoubleSpace == [Lunch EXCEPT !.description = JStr(<<"a", " ", " ", "b">>)]
BlankDescription == [Lunch EXCEPT !.description = JStr(<<" ">>)]
ThreeDecimals == [Lunch EXCEPT !.amount = JNum(12345)]
OverMaximum == [Lunch EXCEPT !.amount = JNum(1000000000)]
Negative == [Lunch EXCEPT !.amount = JNum(-1000)]
NotANumber == [Lunch EXCEPT !.amount = JNaN]
InfiniteAmount == [Lunch EXCEPT !.amount = JInfinity]
StringAmount == [Lunch EXCEPT !.amount = JStr(<<"5">>)]
DigitCategory == [Lunch EXCEPT !.category = JStr(<<"F", "o", "o", "d", "1">>)]
February30 == [Lunch EXCEPT !.date = JStr(Date20250230)]
Month13 == [Lunch EXCEPT !.date = JStr(Date20251301)]
UndefinedCreatedAt == [Lunch EXCEPT !.createdAt = JUndefined]
GarbageUpdatedAt == [Lunch EXCEPT !.updatedAt = JStr(<<"x">>)]
MissingId == [Lunch EXCEPT !.id = JAbsent]
NumberId == [Lunch EXCEPT !.id = JNum(7000)]

\* what a caller may pass in a list; what may be found in a stored list
RecordSamples ==
    {Lunch, Novel, LeadingSpace, DoubleSpace, BlankDescription, ThreeDecimals, OverMaximum,
     Negative, NotANumber, InfiniteAmount, StringAmount, DigitCategory, February30, Month13,
     UndefinedCreatedAt, GarbageUpdatedAt, MissingId, NumberId}
ElementSamples == RecordSamples \cup {NullElement, PrimitiveElement}
\* those that longer lists are made of
CoreSamples == {Lunch, Novel, InfiniteAmount, Negative, LeadingSpace, NullElement}

\* the longest list passed or stored
MaxLen == 2

Lists(S) == UNION {[1..n -> S] : n \in 0..MaxLen}

\* the lists a caller passes: any one element, or core elements up to MaxLen
ArgLists == Lists(CoreSamples) \cup {<<t>> : t \in ElementSamples}
\* the lists a stored text may hold
StoredLists == {JsonItems(items) : items \in ArgLists}

ListArg(items) == [isArray |-> TRUE, items |-> items]
NonListArg == [isArray |-> FALSE, items |-> <<>>]

TzOffsets == {0 - 5, 0}

\* a store with room for whatever the samples make
AmpleQuota == 100000

\* settings objects: the empty object, and objects with one or two keys
EmptySettings ==
    [baseCurrency |-> JAbsent, exchangeRates |-> NoRates("absent"),
     categories |-> NoCategories("absent"), spendingCap |-> JAbsent, theme |-> JAbsent,
     extra |-> FALSE]

Dollars == <<"D", "O", "L", "L", "A", "R", "S">>
Blue == <<"b", "l", "u", "e">>

DarkTheme == [EmptySettings EXCEPT !.theme = JStr(Dark)]
CapFifty == [EmptySettings EXCEPT !.spendingCap = JNum(50000)]
CapFiftyEuro == [CapFifty EXCEPT !.baseCurrency = JStr(<<"E", "U", "R">>)]
LongCurrency == [EmptySettings EXCEPT !.baseCurrency = JStr(Dollars)]
EmptyCurrency == [EmptySettings EXCEPT !.baseCurrency = JStr(<<>>)]
NumberCurrency == [EmptySettings EXCEPT !.baseCurrency = JNum(5000)]
RepeatedCategory == [EmptySettings EXCEPT !.categories = Categories(<<JStr(Food), JStr(Food)>>)]
MixedCategories ==
    [EmptySettings EXCEPT !.categories = Categories(<<JStr(Books), JStr(<<" ">>), JNum(5000)>>)]
StringCategories == [EmptySettings EXCEPT !.categories = NoCategories("string")]
MixedRates ==
    [EmptySettings EXCEPT !.exchangeRates = Rates(JNum(900), JNum(-1000), JInfinity)]
NullRates == [EmptySettings EXCEPT !.exchangeRates = NoRates("null")]
NegativeCap == [EmptySettings EXCEPT !.spendingCap = JNum(-5000)]
InfiniteCap == [EmptySettings EXCEPT !.spendingCap = JInfinity]
BlueTheme == [EmptySettings EXCEPT !.theme = JStr(Blue)]
UnknownKey == [EmptySettings EXCEPT !.extra = TRUE]

SettingsSamples ==
    {EmptySettings, getDefaultSettings, DarkTheme, CapFifty, CapFiftyEuro, LongCurrency,
     EmptyCurrency, NumberCurrency, RepeatedCategory, MixedCategories, StringCategories,
     MixedRates, NullRates, NegativeCap, InfiniteCap, BlueTheme, UnknownKey}

ObjectArg(value) == [isObject |-> TRUE, value |-> value]
NonObjectArg == [isObject |-> FALSE, value |-> EmptySettings]

\* the settings documents that may be found in the store: none, text that
\* does not parse, a partial object, documents saveSettings wrote
FoundSettingsDocs ==
    {AbsentSettingsDoc, [kind |-> "garbage", value |-> getDefaultSettings],
     SettingsDoc(DarkTheme), SettingsDoc(JsonSettings(validateSettings(CapFiftyEuro)))}

(***************************************************************************)
(* The store's operations                                                  *)
(***************************************************************************)
VersionFootprint(version) == IF version = <<>> THEN 0 ELSE VersionKeyLen + Len(version)

\* the characters of a backup: its key and the text of its snapshot
BackupFootprint(snapshot) ==
    BackupKeyLen + TextLen(snapshot.transactions) + SettingsLen(snapshot.settings)

RECURSIVE BackupsFootprint(_)
BackupsFootprint(bk) ==
    IF DOMAIN bk = {} THEN 0
    ELSE LET stamp == CHOOSE k \in DOMAIN bk : TRUE
         IN  BackupFootprint(bk[stamp])
               + BackupsFootprint([k \in DOMAIN bk \ {stamp} |-> bk[k]])

\* the characters in use in a store holding these documents
UsedOf(tx, settings, version, bk) ==
    DocFootprint(tx, TransactionsKeyLen) + SettingsFootprint(settings)
        + VersionFootprint(version) + BackupsFootprint(bk)

Used == UsedOf(txDoc, settingsDoc, versionDoc, backups)

NotSaved == [set |-> FALSE, items |-> <<>>]
NoBackups == [k \in {} |-> 0]

saveTransactions(arg, fault) ==
    LET result == SaveTransactionsResult(arg, fault, txDoc, Used, quota)
    IN  /\ txDoc' = result.doc
        /\ ret' = result.ret
        /\ lastSaved' = IF result.ret.status = "ok"
                        THEN [set |-> TRUE, items |-> arg.items] ELSE lastSaved
        /\ UNCHANGED <<settingsDoc, versionDoc, backups, hostVars, clock, memVars,
                       created, engineVars>>

loadTransactions ==
    /\ ret' = Returned("loadTransactions", LoadTransactionsResult(txDoc))
    /\ UNCHANGED <<storeVars, hostVars, clock, memVars, lastSaved, created, engineVars>>

clearTransactions ==
    /\ txDoc' = AbsentDoc
    /\ ret' = Returned("clearTransactions", <<>>)
    /\ lastSaved' = NotSaved
    /\ UNCHANGED <<settingsDoc, versionDoc, backups, hostVars, clock, memVars, created, engineVars>>

\* saveSettings(arg) over the settings document doc: the document
\* afterwards and what the call returned or threw
SettingsNotObjectError == [name |-> "Error", message |-> "Settings must be an object"]

SaveSettingsResult(arg, fault, doc, used, q) ==
    IF ~arg.isObject
    THEN [doc |-> doc, ret |-> Threw("saveSettings", SettingsNotObjectError, "", "")]
    ELSE
      LET validatedSettings == validateSettings(arg.value)
          text == JsonSettings(validatedSettings)
          commit == SetItemError(used, SettingsFootprint(doc),
                                 SettingsKeyLen + SettingsLen(text), q, fault)
      IN  IF commit # NoError
          THEN [doc |-> doc, ret |-> Threw("saveSettings", commit, commit.name, "commit")]
          ELSE [doc |-> SettingsDoc(text), ret |-> Returned("saveSettings", <<>>)]

saveSettings(arg, fault) ==
    LET result == SaveSettingsResult(arg, fault, settingsDoc, Used, quota)
    IN  /\ settingsDoc' = result.doc
        /\ ret' = result.ret
        /\ UNCHANGED <<txDoc, versionDoc, backups, hostVars, clock, memVars, lastSaved,
                       created, engineVars>>

clearSettings ==
    /\ settingsDoc' = AbsentSettingsDoc
    /\ ret' = Returned("clearSettings", <<>>)
    /\ UNCHANGED <<txDoc, versionDoc, backups, hostVars, clock, memVars, lastSaved,
                   created, engineVars>>

\* CURRENT_VERSION
CurrentVersion == <<"1", ".", "0">>
OlderVersion == <<"0", ".", "9">>

\* a value that is an object is truthy
ObjectTruthy(object) == TRUE

\* upgradeStorage(fromVersion) saves the default settings:
\* if (!this.loadSettings())
UpgradeSavesDefaults(doc) == ~ObjectTruthy(loadSettings(doc))

\* new StorageManager(): initializeStorage()
construct ==
    IF versionDoc # CurrentVersion
    THEN LET saved == IF UpgradeSavesDefaults(settingsDoc)
                      THEN SaveSettingsResult([isObject |-> TRUE, value |-> getDefaultSettings],
                                              FALSE, settingsDoc, Used, quota)
                      ELSE [doc |-> settingsDoc, ret |-> Returned("saveSettings", <<>>)]
             marker == SetItemError(UsedOf(txDoc, saved.doc, versionDoc, backups),
                                    VersionFootprint(versionDoc),
                                    VersionKeyLen + Len(CurrentVersion), quota, FALSE)
         IN  /\ settingsDoc' = saved.doc
             /\ IF saved.ret.status = "throw"
                THEN /\ versionDoc' = versionDoc
                     /\ ret' = [saved.ret EXCEPT !.op = "constructor"]
                ELSE IF marker # NoError
                THEN /\ versionDoc' = versionDoc
                     /\ ret' = Threw("constructor", marker, marker.name, "commit")
                ELSE /\ versionDoc' = CurrentVersion
                     /\ ret' = Returned("constructor", <<>>)
             /\ UNCHANGED <<txDoc, backups, hostVars, clock, memVars, lastSaved,
                            created, engineVars>>
    ELSE /\ ret' = Returned("constructor", <<>>)
         /\ UNCHANGED <<storeVars, hostVars, clock, memVars, lastSaved, created, engineVars>>

(***************************************************************************)
(* Import.  A payload is what JSON.parse made of the chosen file: kind     *)
(* "garbage" (the text does not parse), "null", or "object" with           *)
(*   transactions: kind "absent" | "falsy" (null, 0, '') | "truthy" (a     *)
(*     string, an object) | "array", with the elements;                    *)
(*   settings: kind "absent" | "falsy" | "string" | "number" | "object",   *)
(*     with the object.                                                    *)
(***************************************************************************)
TxPart(kind, items) == [kind |-> kind, items |-> items]
SettingsPart(kind, value) == [kind |-> kind, value |-> value]
Payload(kind, transactions, settings) ==
    [kind |-> kind, transactions |-> transactions, settings |-> settings]

\* Validators.validateImportData(data): the result object's valid
validateImportData(data, offset) ==
    /\ data.kind = "object"
    /\ data.transactions.kind # "truthy"
    /\ data.transactions.kind = "array"
          => \A i \in 1..Len(data.transactions.items) :
                ValidatorsValidateTransaction(data.transactions.items[i], offset)
    /\ data.settings.kind \notin {"string", "number"}

\* if (!this.validators.validateImportData(data)): the result is an object
ImportDataRejected(data, offset) ==
    ~ObjectTruthy([valid |-> validateImportData(data, offset)])

\* what { ...current, ...data.settings } spreads: the keys of an object, the
\* index keys of a string, nothing of a number
SpreadSource(part) ==
    CASE part.kind = "object" -> part.value
      [] part.kind = "string" -> [EmptySettings EXCEPT !.extra = TRUE]
      [] OTHER -> EmptySettings

JsonSyntaxError == [name |-> "SyntaxError", message |-> "Unexpected token"]
NullPropertyTypeError == [name |-> "TypeError", message |-> "Cannot read properties of null"]
InvalidDataFormatError == [name |-> "Error", message |-> "Invalid data format"]

\* the coordinator showed an error (showError) and returned
Reported(op, error) ==
    [op |-> op, status |-> "error", error |-> error, storeError |-> "", stage |-> "",
     value |-> <<>>]

\* FinanceTrackerApp.importData() with the file's text parsed to data
AppImportData(data) ==
    LET txTruthy == data.transactions.kind \in {"truthy", "array"}
        settingsTruthy == data.settings.kind \in {"string", "number", "object"}
        list == IF data.transactions.kind = "array" THEN data.transactions.items ELSE <<>>
        arg == [isArray |-> data.transactions.kind = "array", items |-> list]
        saved == SaveTransactionsResult(arg, "none", txDoc, Used, quota)
        txAfter == IF txTruthy THEN saved.doc ELSE txDoc
        merged == Spread(memSettings, SpreadSource(data.settings))
        savedSettings ==
            SaveSettingsResult(ObjectArg(merged), FALSE, settingsDoc,
                               UsedOf(txAfter, settingsDoc, versionDoc, backups), quota)
    IN  /\ IF data.kind = "garbage"
           THEN /\ ret' = Reported("app.importData", JsonSyntaxError)
                /\ UNCHANGED <<txDoc, settingsDoc, memVars, lastSaved>>
           ELSE IF ImportDataRejected(data, tzOffset)
           THEN /\ ret' = Reported("app.importData", InvalidDataFormatError)
                /\ UNCHANGED <<txDoc, settingsDoc, memVars, lastSaved>>
           ELSE IF data.kind = "null"
           THEN /\ ret' = Reported("app.importData", NullPropertyTypeError)
                /\ UNCHANGED <<txDoc, settingsDoc, memVars, lastSaved>>
           ELSE IF txTruthy /\ saved.ret.status = "throw"
           THEN /\ memTx' = list
                /\ ret' = Reported("app.importData", saved.ret.error)
                /\ UNCHANGED <<txDoc, settingsDoc, memSettings, lastSaved>>
           ELSE /\ memTx' = IF txTruthy THEN list ELSE memTx
                /\ txDoc' = txAfter
                /\ lastSaved' = IF txTruthy THEN [set |-> TRUE, items |-> list] ELSE lastSaved
                /\ IF ~settingsTruthy
                   THEN /\ ret' = Returned("app.importData", <<>>)
                        /\ UNCHANGED <<settingsDoc, memSettings>>
                   ELSE /\ memSettings' = merged
                        /\ settingsDoc' = savedSettings.doc
                        /\ ret' = IF savedSettings.ret.status = "throw"
                                  THEN Reported("app.importData", savedSettings.ret.error)
                                  ELSE Returned("app.importData", <<>>)
        /\ UNCHANGED <<versionDoc, backups, hostVars, clock, created, engineVars>>

\* StorageManager.importData(data)
StorageImportData(data) ==
    LET isArray == data.transactions.kind = "array"
        validTransactions == FilterValid(data.transactions.items)
        saves == isArray /\ Len(validTransactions) > 0
        saved == SaveTransactionsResult(ListArg(validTransactions), "none", txDoc, Used, quota)
        txAfter == IF saves THEN saved.doc ELSE txDoc
        savedSettings ==
            SaveSettingsResult(ObjectArg(data.settings.value), FALSE, settingsDoc,
                               UsedOf(txAfter, settingsDoc, versionDoc, backups), quota)
    IN  /\ IF data.kind # "object"
           THEN /\ ret' = Threw("storage.importData", InvalidDataFormatError, "", "")
                /\ UNCHANGED <<txDoc, settingsDoc, lastSaved>>
           ELSE IF isArray /\ AnyThrows(data.transactions.items)
           THEN /\ ret' = Threw("storage.importData", InOperatorTypeError, "", "")
                /\ UNCHANGED <<txDoc, settingsDoc, lastSaved>>
           ELSE IF saves /\ saved.ret.status = "throw"
           THEN /\ ret' = [saved.ret EXCEPT !.op = "storage.importData"]
                /\ UNCHANGED <<txDoc, settingsDoc, lastSaved>>
           ELSE /\ txDoc' = txAfter
                /\ lastSaved' = IF saves THEN [set |-> TRUE, items |-> validTransactions]
                                ELSE lastSaved
                /\ IF data.settings.kind # "object"
                   THEN /\ ret' = Returned("storage.importData", <<>>)
                        /\ UNCHANGED settingsDoc
                   ELSE /\ settingsDoc' = savedSettings.doc
                        /\ ret' = IF savedSettings.ret.status = "throw"
                                  THEN [savedSettings.ret EXCEPT !.op = "storage.importData"]
                                  ELSE Returned("storage.importData", <<>>)
        /\ UNCHANGED <<versionDoc, backups, hostVars, clock, memVars, created, engineVars>>

\* FinanceTrackerApp.setSpendingCap() with parseFloat of the input as cap
AppSetSpendingCap(cap) ==
    IF cap.t = "NaN" \/ (cap.t = "number" /\ cap.n <= 0)
    THEN /\ ret' = Reported("app.setSpendingCap", NoError)
         /\ UNCHANGED <<storeVars, hostVars, clock, memVars, lastSaved, created, engineVars>>
    ELSE LET settings == [memSettings EXCEPT !.spendingCap = cap]
             saved == SaveSettingsResult(ObjectArg(settings), FALSE, settingsDoc, Used, quota)
         IN  /\ memSettings' = settings
             /\ settingsDoc' = saved.doc
             /\ ret' = [saved.ret EXCEPT !.op = "app.setSpendingCap"]
             /\ UNCHANGED <<txDoc, versionDoc, backups, hostVars, clock, memTx, lastSaved,
                            created, engineVars>>

\* FinanceTrackerApp.saveCurrencySettings() with the form's values
AppSaveCurrencySettings(base, eur, gbp) ==
    LET settings == [memSettings EXCEPT !.baseCurrency = base,
                                        !.exchangeRates = Rates(eur, gbp, JAbsent)]
        saved == SaveSettingsResult(ObjectArg(settings), FALSE, settingsDoc, Used, quota)
    IN  /\ memSettings' = settings
        /\ settingsDoc' = saved.doc
        /\ ret' = [saved.ret EXCEPT !.op = "app.saveCurrencySettings"]
        /\ UNCHANGED <<txDoc, versionDoc, backups, hostVars, clock, memTx, lastSaved,
                       created, engineVars>>

(***************************************************************************)
(* Backups.  localStorage keys are character sequences; a backup is stored *)
(* under TRANSACTIONS_KEY + '_backup_' + Date.now().  backups maps the     *)
(* stamp of each backup key in the store to its snapshot; clock is the     *)
(* host's wall clock, counted from the moment the model starts.            *)
(***************************************************************************)
TransactionsKey ==
    <<"f", "i", "n", "a", "n", "c", "e", "_", "t", "r", "a", "c", "k", "e", "r", "_",
      "t", "r", "a", "n", "s", "a", "c", "t", "i", "o", "n", "s">>
SettingsKey ==
    <<"f", "i", "n", "a", "n", "c", "e", "_", "t", "r", "a", "c", "k", "e", "r", "_",
      "s", "e", "t", "t", "i", "n", "g", "s">>
VersionKey ==
    <<"f", "i", "n", "a", "n", "c", "e", "_", "t", "r", "a", "c", "k", "e", "r", "_",
      "v", "e", "r", "s", "i", "o", "n">>
BackupPrefix == TransactionsKey \o <<"_", "b", "a", "c", "k", "u", "p", "_">>

BackupKey(stamp) == BackupPrefix \o NatToChars(stamp)

\* key.startsWith(prefix)
StartsWith(key, prefix) ==
    Len(key) >= Len(prefix) /\ SubSeq(key, 1, Len(prefix)) = prefix

\* parseInt(key.split('_').pop()) of a key whose last part is digits
RECURSIVE LastPart(_)
LastPart(key) ==
    IF key = <<>> \/ key[Len(key)] = "_" THEN <<>>
    ELSE LastPart(SubSeq(key, 1, Len(key) - 1)) \o <<key[Len(key)]>>

Timestamp(key) == CharsToNat(LastPart(key))

\* the keys of a store holding these documents
StoreKeys(tx, settings, version, bk) ==
    (IF tx.kind = "absent" THEN {} ELSE {TransactionsKey})
      \cup (IF settings.kind = "absent" THEN {} ELSE {SettingsKey})
      \cup (IF version = <<>> THEN {} ELSE {VersionKey})
      \cup {BackupKey(stamp) : stamp \in DOMAIN bk}

\* backupKeys.sort(...) by the opposite order, oldest first
RECURSIVE SortOldestFirst(_)
SortOldestFirst(keys) ==
    IF keys = {} THEN <<>>
    ELSE LET oldest == CHOOSE k \in keys : \A other \in keys : Timestamp(k) <= Timestamp(other)
         IN  <<oldest>> \o SortOldestFirst(keys \ {oldest})

\* backupKeys.sort((a, b) => timestampB - timestampA): newest first
RECURSIVE SortNewestFirst(_)
SortNewestFirst(keys) ==
    IF keys = {} THEN <<>>
    ELSE LET newest == CHOOSE k \in keys : \A other \in keys : Timestamp(k) >= Timestamp(other)
         IN  <<newest>> \o SortNewestFirst(keys \ {newest})

\* for (let i = 3; ...): the sorted backup keys before this index are kept
KeepBackups == 3

\* cleanupOldBackups(): the keys it removes from a store with these keys
cleanupOldBackups(keys) ==
    LET backupKeys == SortNewestFirst({key \in keys : StartsWith(key, BackupPrefix)})
    IN  {backupKeys[i] : i \in (KeepBackups + 1)..Len(backupKeys)}

\* createBackup(); fault is an I/O failure of the host at its write
createBackup(fault) ==
    LET snapshot == [transactions |-> JsonItems(LoadTransactionsResult(txDoc)),
                     settings |-> JsonSettings(loadSettings(settingsDoc))]
        replaced == IF clock \in DOMAIN backups THEN BackupFootprint(backups[clock]) ELSE 0
        error == SetItemError(Used, replaced, BackupFootprint(snapshot), quota, fault)
        written == [stamp \in DOMAIN backups \cup {clock} |->
                        IF stamp = clock THEN snapshot ELSE backups[stamp]]
        removed == cleanupOldBackups(StoreKeys(txDoc, settingsDoc, versionDoc, written))
    IN  IF error # NoError
        THEN /\ ret' = Threw("createBackup", error, error.name, "commit")
             /\ UNCHANGED <<storeVars, hostVars, clock, memVars, lastSaved, created, engineVars>>
        ELSE /\ backups' = [stamp \in {k \in DOMAIN written : BackupKey(k) \notin removed} |->
                                written[stamp]]
             /\ txDoc' = IF TransactionsKey \in removed THEN AbsentDoc ELSE txDoc
             /\ settingsDoc' = IF SettingsKey \in removed THEN AbsentSettingsDoc ELSE settingsDoc
             /\ versionDoc' = IF VersionKey \in removed THEN <<>> ELSE versionDoc
             /\ created' = created \cup {clock}
             /\ ret' = Returned("createBackup", BackupKey(clock))
             /\ UNCHANGED <<hostVars, clock, memVars, lastSaved, engineVars>>

(***************************************************************************)
(* Search (scripts/search.js).  A pattern is the source text of a regular  *)
(* expression.  The part of the syntax computed here: a literal character  *)
(* matches itself, "." matches any character but a line terminator; "("    *)
(* or "[" never closed, and a leading quantifier, are syntax errors.  The  *)
(* patterns searched for stay within this part.                            *)
(***************************************************************************)
UpperCase ==
    <<"A", "B", "C", "D", "E", "F", "G", "H", "I", "J", "K", "L", "M", "N", "O", "P", "Q",
      "R", "S", "T", "U", "V", "W", "X", "Y", "Z">>
LowerCase ==
    <<"a", "b", "c", "d", "e", "f", "g", "h", "i", "j", "k", "l", "m", "n", "o", "p", "q",
      "r", "s", "t", "u", "v", "w", "x", "y", "z">>

\* the canonical form of a character under the i flag
Canonicalize(c) ==
    IF \E k \in 1..Len(LowerCase) : LowerCase[k] = c
    THEN UpperCase[CHOOSE k \in 1..Len(LowerCase) : LowerCase[k] = c]
    ELSE c

Quantifiers == {"*", "+", "?"}

\* a RegExp constructor that accepts every pattern
AcceptsEveryPattern(pattern) == <<>>

\* new RegExp(pattern, flags): the message of the SyntaxError, <<>> when it compiles
RegExpSyntaxError(pattern) ==
    IF pattern # <<>> /\ pattern[1] \in Quantifiers
    THEN <<"N", "o", "t", "h", "i", "n", "g", " ", "t", "o", " ", "r", "e", "p", "e", "a", "t">>
    ELSE IF \E i \in 1..Len(pattern) :
                pattern[i] = "[" /\ \A j \in (i + 1)..Len(pattern) : pattern[j] # "]"
    THEN <<"U", "n", "t", "e", "r", "m", "i", "n", "a", "t", "e", "d", " ",
           "c", "l", "a", "s", "s">>
    ELSE IF \E i \in 1..Len(pattern) :
                pattern[i] = "(" /\ \A j \in (i + 1)..Len(pattern) : pattern[j] # ")"
    THEN <<"U", "n", "t", "e", "r", "m", "i", "n", "a", "t", "e", "d", " ",
           "g", "r", "o", "u", "p">>
    ELSE <<>>

\* the pattern matches the text at the 0-based index
MatchesAt(pattern, ignoreCase, text, index) ==
    /\ index + Len(pattern) <= Len(text)
    /\ \A k \in 1..Len(pattern) :
          \/ pattern[k] = "." /\ text[index + k] \notin LineTerminators
          \/ pattern[k] # "." /\ pattern[k] = text[index + k]
          \/ pattern[k] # "." /\ ignoreCase
                /\ Canonicalize(pattern[k]) = Canonicalize(text[index + k])

\* regex.test(text) of a regular expression with the g flag: the search
\* starts at lastIndex; a match leaves lastIndex behind it, a failure at 0
RegexTest(pattern, ignoreCase, lastIndex, text) ==
    LET starts == {i \in lastIndex..Len(text) : MatchesAt(pattern, ignoreCase, text, i)}
        first == CHOOSE i \in starts : \A j \in starts : i <= j
    IN  IF starts = {} THEN [found |-> FALSE, lastIndex |-> 0]
        ELSE [found |-> TRUE, lastIndex |-> first + Len(pattern)]

\* the digits of a natural number in groups of three
RECURSIVE GroupedChars(_)
GroupedChars(k) ==
    IF k < 1000 THEN NatToChars(k)
    ELSE GroupedChars(k \div 1000)
           \o <<",", DigitChar((k \div 100) % 10), DigitChar((k \div 10) % 10),
                DigitChar(k % 10)>>

\* formatCurrency(amount): Intl.NumberFormat('en-US', currency USD) of a
\* finite number, rounded to cents half away from zero
formatCurrency(amount) ==
    LET magnitude == IF amount.n < 0 THEN 0 - amount.n ELSE amount.n
        cents == (magnitude + 5) \div 10
    IN  (IF amount.n < 0 /\ cents > 0 THEN <<"-">> ELSE <<>>)
          \o <<"$">> \o GroupedChars(cents \div 100)
          \o <<".", DigitChar((cents \div 10) % 10), DigitChar(cents % 10)>>

\* the searchFields of matchesTransaction that are strings
SearchFields(transaction) ==
    SelectSeq(<<transaction.description, transaction.category,
                JStr(ToStringChars(transaction.amount)), transaction.date,
                JStr(formatCurrency(transaction.amount))>>,
              LAMBDA field : field.t = "string")

\* searchFields.some(field => regex.test(field)), from the regex's lastIndex
RECURSIVE SomeFieldMatches(_, _, _, _)
SomeFieldMatches(fields, pattern, ignoreCase, lastIndex) ==
    IF fields = <<>> THEN [found |-> FALSE, lastIndex |-> lastIndex]
    ELSE LET test == RegexTest(pattern, ignoreCase, lastIndex, Head(fields).s)
         IN  IF test.found THEN test
             ELSE SomeFieldMatches(Tail(fields), pattern, ignoreCase, test.lastIndex)

\* matchesTransaction(transaction, regex)
matchesTransaction(transaction, pattern, ignoreCase, lastIndex) ==
    SomeFieldMatches(SearchFields(transaction), pattern, ignoreCase, lastIndex)

\* transactions.filter(t => this.matchesTransaction(t, regex)): the records
\* kept and the lastIndex the regex is left with
RECURSIVE FilterMatching(_, _, _, _)
FilterMatching(transactions, pattern, ignoreCase, lastIndex) ==
    IF transactions = <<>> THEN [items |-> <<>>, lastIndex |-> lastIndex]
    ELSE LET test == matchesTransaction(Head(transactions), pattern, ignoreCase, lastIndex)
             rest == FilterMatching(Tail(transactions), pattern, ignoreCase, test.lastIndex)
         IN  [items |-> (IF test.found THEN <<Head(transactions)>> ELSE <<>>) \o rest.items,
              lastIndex |-> rest.lastIndex]

\* the retained matcher: lastCompiledPattern, lastFlags ('gi' or 'g') and the
\* lastIndex of lastCompiledRegex; set is FALSE until a pattern compiled
NoMatcher == [set |-> FALSE, pattern |-> <<>>, ignoreCase |-> FALSE, lastIndex |-> 0]

Matcher(pattern, ignoreCase, lastIndex) ==
    [set |-> TRUE, pattern |-> pattern, ignoreCase |-> ignoreCase, lastIndex |-> lastIndex]

\* compileRegex returns the retained regex
RetainedMatcherFits(matcher, pattern, caseInsensitive) ==
    matcher.set /\ matcher.pattern = pattern /\ matcher.ignoreCase = caseInsensitive

InvalidPatternPrefix ==
    <<"I", "n", "v", "a", "l", "i", "d", " ", "p", "a", "t", "t", "e", "r", "n", ":", " ">>

maxHistoryItems == 10

HistoryItem(pattern, caseInsensitive, timestamp, useCount) ==
    [pattern |-> pattern, caseInsensitive |-> caseInsensitive, timestamp |-> timestamp,
     useCount |-> useCount]

SamePair(item, pattern, caseInsensitive) ==
    item.pattern = pattern /\ item.caseInsensitive = caseInsensitive

\* addToHistory with every search put in front
AddToHistoryAlwaysUnshift(history, pattern, caseInsensitive, now) ==
    SubSeq(<<HistoryItem(pattern, caseInsensitive, now, 1)>> \o history, 1,
           IF Len(history) + 1 > maxHistoryItems THEN maxHistoryItems ELSE Len(history) + 1)

\* addToHistory(pattern, caseInsensitive) at the time now: the history after it
AddToHistory(history, pattern, caseInsensitive, now) ==
    LET existing == {i \in 1..Len(history) : SamePair(history[i], pattern, caseInsensitive)}
        existingIndex == CHOOSE i \in existing : \A j \in existing : i <= j
        unshifted == <<HistoryItem(pattern, caseInsensitive, now, 1)>> \o history
    IN  IF existing # {}
        THEN [history EXCEPT ![existingIndex] =
                 HistoryItem(pattern, caseInsensitive, now, @.useCount + 1)]
        ELSE IF Len(unshifted) > maxHistoryItems
        THEN SubSeq(unshifted, 1, maxHistoryItems)
        ELSE unshifted

\* the successful searches per pair since the pair's entry was inserted
CountUse(uses, history, pattern, caseInsensitive) ==
    LET pair == <<pattern, caseInsensitive>>
        inHistory == \E i \in 1..Len(history) : SamePair(history[i], pattern, caseInsensitive)
    IN  [q \in DOMAIN uses \cup {pair} |->
            IF q # pair THEN uses[q]
            ELSE IF inHistory THEN uses[q] + 1 ELSE 1]

NoUses == [q \in {} |-> 0]

\* searchTransactions(transactions, pattern, caseInsensitive)
searchTransactions(transactions, pattern, caseInsensitive) ==
    LET retained == RetainedMatcherFits(lastCompiled, pattern, caseInsensitive)
        error == RegExpSyntaxError(pattern)
        start == IF retained THEN lastCompiled.lastIndex ELSE 0
        result == FilterMatching(transactions, pattern, caseInsensitive, start)
    IN  /\ IF pattern = <<>> \/ Trim(pattern) = <<>>
           THEN /\ ret' = [Returned("searchTransactions", transactions) EXCEPT !.stage = "guard"]
                /\ UNCHANGED searchVars
           ELSE IF ~retained /\ error # <<>>
           THEN /\ searchError' = InvalidPatternPrefix \o error
                /\ ret' = [Returned("searchTransactions", transactions)
                              EXCEPT !.stage = "compile"]
                /\ UNCHANGED <<searchHistory, lastCompiled, searchUses>>
           ELSE /\ lastCompiled' = Matcher(pattern, caseInsensitive, result.lastIndex)
                /\ searchHistory' = AddToHistory(searchHistory, pattern, caseInsensitive, clock)
                /\ searchUses' = CountUse(searchUses, searchHistory, pattern, caseInsensitive)
                /\ ret' = [Returned("searchTransactions", result.items)
                              EXCEPT !.stage = "filter"]
                /\ UNCHANGED searchError
        /\ UNCHANGED <<storeVars, hostVars, clock, memVars, lastSaved, created, notifyVars,
                       statsCache>>

\* compileRegex that compares the pattern only, not the flags
compileRegexByPattern(matcher, pattern, caseInsensitive) ==
    LET error == RegExpSyntaxError(pattern)
    IN  IF matcher.set /\ matcher.pattern = pattern
        THEN [ok |-> TRUE, compiled |-> FALSE, regex |-> matcher, retained |-> matcher,
              error |-> <<>>]
        ELSE IF error # <<>>
        THEN [ok |-> FALSE, compiled |-> FALSE, regex |-> NoMatcher, retained |-> matcher,
              error |-> InvalidPatternPrefix \o error]
        ELSE [ok |-> TRUE, compiled |-> TRUE, regex |-> Matcher(pattern, caseInsensitive, 0),
              retained |-> Matcher(pattern, caseInsensitive, 0), error |-> <<>>]

\* compileRegex(pattern, caseInsensitive) with the matcher retained: the
\* regex returned (ok = FALSE for null), whether new RegExp ran, the matcher
\* retained afterwards and the message shown
compileRegex(matcher, pattern, caseInsensitive) ==
    LET error == RegExpSyntaxError(pattern)
    IN  IF RetainedMatcherFits(matcher, pattern, caseInsensitive)
        THEN [ok |-> TRUE, compiled |-> FALSE, regex |-> matcher, retained |-> matcher,
              error |-> <<>>]
        ELSE IF error # <<>>
        THEN [ok |-> FALSE, compiled |-> FALSE, regex |-> NoMatcher, retained |-> matcher,
              error |-> InvalidPatternPrefix \o error]
        ELSE [ok |-> TRUE, compiled |-> TRUE, regex |-> Matcher(pattern, caseInsensitive, 0),
              retained |-> Matcher(pattern, caseInsensitive, 0), error |-> <<>>]

\* a call of compileRegex(pattern, caseInsensitive)
CompileRegexCall(pattern, caseInsensitive) ==
    LET call == compileRegex(lastCompiled, pattern, caseInsensitive)
    IN  /\ lastCompiled' = call.retained
        /\ searchError' = IF call.ok THEN searchError ELSE call.error
        /\ ret' = Returned("compileRegex",
                           [pattern |-> pattern, caseInsensitive |-> caseInsensitive,
                            ok |-> call.ok, compiled |-> call.compiled,
                            regex |-> call.regex])
        /\ UNCHANGED <<storeVars, hostVars, clock, memVars, lastSaved, created, notifyVars,
                       searchHistory, searchUses, statsCache>>

\* handleSearch(): the loaded list is searched for the query typed
handleSearch(query, caseInsensitive) == searchTransactions(memTx, query, caseInsensitive)

\* clearSearchHistory()
clearSearchHistory ==
    /\ searchHistory' = <<>>
    /\ searchUses' = NoUses
    /\ ret' = Returned("clearSearchHistory", <<>>)
    /\ UNCHANGED <<storeVars, hostVars, clock, memVars, lastSaved, created, notifyVars,
                   lastCompiled, searchError, statsCache>>

\* new SearchManager(), new StatsManager()
EnginesConstructed ==
    /\ searchHistory = <<>>
    /\ lastCompiled = NoMatcher
    /\ searchError = <<>>
    /\ searchUses = NoUses
    /\ statsCache = [key \in {} |-> 0]
    /\ observers = [event \in {} |-> <<>>]
    /\ announcers = [a \in {"status", "alert"} |-> [textContent |-> "", since |-> 0]]
    /\ timers = {}

(***************************************************************************)
(* Statistics (scripts/stats.js).  The records given to the statistics     *)
(* carry finite amounts; sums are exact in thousandths and a quotient is   *)
(* held as a reduced fraction of thousandths, so that rounding of the      *)
(* floating-point arithmetic is not part of the model.                     *)
(***************************************************************************)
TwoDigits(k) == <<DigitChar(k \div 10), DigitChar(k % 10)>>

IsoDate(y, m, d) == NatToChars(y) \o <<"-">> \o TwoDigits(m) \o <<"-">> \o TwoDigits(d)

RECURSIVE Gcd(_, _)
Gcd(a, b) == IF b = 0 THEN a ELSE Gcd(b, a % b)

Abs(k) == IF k < 0 THEN 0 - k ELSE k

\* num / den as JavaScript computes it from two finite numbers
Quotient(num, den) ==
    IF den = 0
    THEN [t |-> IF num = 0 THEN "NaN" ELSE "Infinity", num |-> IF num < 0 THEN 0 - 1 ELSE 1,
          den |-> 0]
    ELSE LET g == Gcd(Abs(num), Abs(den))
             sign == IF den < 0 THEN 0 - 1 ELSE 1
         IN  [t |-> "number", num |-> sign * (num \div g), den |-> sign * (den \div g)]

Whole(k) == Quotient(k, 1)

\* the days from 2024-01-01 to the day y-m-d
RECURSIVE DaysBeforeYear(_)
DaysBeforeYear(y) ==
    IF y <= 2024 THEN 0 ELSE DaysBeforeYear(y - 1) + (IF IsLeapYear(y - 1) THEN 366 ELSE 365)

RECURSIVE DaysBeforeMonth(_, _)
DaysBeforeMonth(y, m) ==
    IF m <= 1 THEN 0 ELSE DaysBeforeMonth(y, m - 1) + DaysInMonth(y, m - 1)

DayNumber(y, m, d) == DaysBeforeYear(y) + DaysBeforeMonth(y, m) + d - 1

\* new Date(dateString) of a stored date, as a day number
DayOf(dateString) ==
    DayNumber(CharsToNat(SubSeq(dateString, 1, 4)), CharsToNat(SubSeq(dateString, 6, 7)),
              CharsToNat(SubSeq(dateString, 9, 10)))

\* date.toISOString().split('T')[0] of the day with this number
RECURSIVE IsoOfDayFrom(_, _, _)
IsoOfDayFrom(y, m, n) ==
    IF n >= (IF IsLeapYear(y) THEN 366 ELSE 365) /\ m = 1
    THEN IsoOfDayFrom(y + 1, 1, n - (IF IsLeapYear(y) THEN 366 ELSE 365))
    ELSE IF n >= DaysInMonth(y, m) THEN IsoOfDayFrom(y, m + 1, n - DaysInMonth(y, m))
    ELSE IsoDate(y, m, n + 1)

IsoOfDay(n) == IsoOfDayFrom(2024, 1, n)

MsPerDay == 86400000

\* the day the model starts on, at midnight UTC: 2025-10-15
StartDay == DayNumber(2025, 10, 15)

\* new Date(): the day number and the milliseconds into the day
Today(now) == StartDay + now \div MsPerDay
TimeOfDay(now) == now % MsPerDay

RECURSIVE SumAmounts(_)
SumAmounts(transactions) ==
    IF transactions = <<>> THEN 0
    ELSE Head(transactions).amount.n + SumAmounts(Tail(transactions))

\* getDailyTrends(transactions, days) / getEmptyDailyTrends(days)
getDailyTrends(transactions, days, now) ==
    [k \in 1..days |->
        LET dateString == IsoOfDay(Today(now) - (days - k))
            onDay == SelectSeq(transactions, LAMBDA t : t.date.s = dateString)
        IN  [date |-> dateString, amount |-> Whole(SumAmounts(onDay)), count |-> Len(onDay)]]

getEmptyDailyTrends(days, now) == getDailyTrends(<<>>, days, now)

Uncategorized ==
    <<"U", "n", "c", "a", "t", "e", "g", "o", "r", "i", "z", "e", "d">>

\* transaction.category || 'Uncategorized'
CategoryOf(transaction) ==
    IF Truthy(transaction.category) THEN transaction.category.s ELSE Uncategorized

\* Object.keys(totals): the categories in the order they first appear
RECURSIVE CategoryKeys(_, _)
CategoryKeys(transactions, seen) ==
    IF transactions = <<>> THEN <<>>
    ELSE LET category == CategoryOf(Head(transactions))
         IN  IF category \in seen THEN CategoryKeys(Tail(transactions), seen)
             ELSE <<category>> \o CategoryKeys(Tail(transactions), seen \cup {category})

\* Array.prototype.sort((a, b) => b.total - a.total): stable, largest first
RECURSIVE SortByTotal(_)
SortByTotal(entries) ==
    IF entries = <<>> THEN <<>>
    ELSE LET last == entries[Len(entries)]
             before == SortByTotal(SubSeq(entries, 1, Len(entries) - 1))
             ahead == SelectSeq(before, LAMBDA e : e.total >= last.total)
             behind == SelectSeq(before, LAMBDA e : e.total < last.total)
         IN  ahead \o <<last>> \o behind

\* getCategoryTotals(transactions)
getCategoryTotals(transactions) ==
    LET keys == CategoryKeys(transactions, {})
        entry(category) ==
            LET of == SelectSeq(transactions, LAMBDA t : CategoryOf(t) = category)
            IN  [category |-> category, total |-> SumAmounts(of), count |-> Len(of),
                 average |-> Quotient(SumAmounts(of), Len(of))]
    IN  SortByTotal([k \in 1..Len(keys) |-> entry(keys[k])])

\* getTopCategory(categoryTotals)
getTopCategory(categoryTotals) ==
    IF categoryTotals = <<>> THEN JNull ELSE JStr(categoryTotals[1].category)

\* getMonthlyTotals(transactions): month key 'YYYY-MM' -> total
getMonthlyTotals(transactions) ==
    LET monthKey(t) == SubSeq(t.date.s, 1, 7)
        keys == {monthKey(transactions[i]) : i \in 1..Len(transactions)}
    IN  [key \in keys |-> SumAmounts(SelectSeq(transactions, LAMBDA t : monthKey(t) = key))]

\* amounts.sort((a, b) => a - b)
RECURSIVE SortAscending(_)
SortAscending(numbers) ==
    IF numbers = <<>> THEN <<>>
    ELSE LET last == numbers[Len(numbers)]
             before == SortAscending(SubSeq(numbers, 1, Len(numbers) - 1))
         IN  SelectSeq(before, LAMBDA k : k <= last) \o <<last>>
               \o SelectSeq(before, LAMBDA k : k > last)

\* getAmountStatistics(transactions), for a list that is not empty
getAmountStatistics(transactions) ==
    LET amounts == SortAscending([i \in 1..Len(transactions) |-> transactions[i].amount.n])
        middleIndex == Len(amounts) \div 2
    IN  [minAmount |-> Whole(amounts[1]),
         maxAmount |-> Whole(amounts[Len(amounts)]),
         medianAmount |->
            IF Len(amounts) % 2 = 0
            THEN Quotient(amounts[middleIndex] + amounts[middleIndex + 1], 2)
            ELSE Whole(amounts[middleIndex + 1])]

\* a list (array) and a mapping (plain object) as fields of a snapshot
ListOf(items) == [kind |-> "list", items |-> items]
MappingOf(entries) == [kind |-> "mapping", entries |-> entries]
NoEntries == [key \in {} |-> 0]

\* getEmptyStats()
getEmptyStats(now) ==
    [totalRecords |-> Whole(0),
     totalAmount |-> Whole(0),
     averageAmount |-> Whole(0),
     topCategory |-> JNull,
     categoryTotals |-> MappingOf(NoEntries),
     dailyTrends |-> ListOf(getEmptyDailyTrends(7, now)),
     weekTrend |-> Whole(0),
     monthlyTotals |-> MappingOf(NoEntries),
     minAmount |-> Whole(0),
     maxAmount |-> Whole(0),
     medianAmount |-> Whole(0)]

\* computeStats(transactions) at the time now
computeStats(transactions, now) ==
    IF transactions = <<>> THEN getEmptyStats(now)
    ELSE LET categoryTotals == getCategoryTotals(transactions)
             dailyTrends == getDailyTrends(transactions, 7, now)
             amountStats == getAmountStatistics(transactions)
             weekAmounts == [k \in 1..7 |-> dailyTrends[k].amount.num]
             SumSeq[k \in 0..7] == IF k = 0 THEN 0 ELSE SumSeq[k - 1] + weekAmounts[k]
         IN  [totalRecords |-> Whole(Len(transactions)),
              totalAmount |-> Whole(SumAmounts(transactions)),
              averageAmount |-> Quotient(SumAmounts(transactions), Len(transactions)),
              topCategory |-> getTopCategory(categoryTotals),
              categoryTotals |-> ListOf(categoryTotals),
              dailyTrends |-> ListOf(dailyTrends),
              weekTrend |-> Whole(SumSeq[7]),
              monthlyTotals |-> MappingOf(getMonthlyTotals(transactions)),
              minAmount |-> amountStats.minAmount,
              maxAmount |-> amountStats.maxAmount,
              medianAmount |-> amountStats.medianAmount]

\* str.charCodeAt(i) of the characters an id is made of
CharCode(c) ==
    IF c \in Digits THEN 48 + DigitVal(c)
    ELSE IF \E k \in 1..26 : UpperCase[k] = c
    THEN 64 + (CHOOSE k \in 1..26 : UpperCase[k] = c)
    ELSE IF \E k \in 1..26 : LowerCase[k] = c
    THEN 96 + (CHOOSE k \in 1..26 : LowerCase[k] = c)
    ELSE IF c = "," THEN 44
    ELSE IF c = "-" THEN 45
    ELSE 95

\* a < b as strings compare (by code units)
RECURSIVE StringLess(_, _)
StringLess(a, b) ==
    IF b = <<>> THEN FALSE
    ELSE IF a = <<>> THEN TRUE
    ELSE IF CharCode(Head(a)) # CharCode(Head(b)) THEN CharCode(Head(a)) < CharCode(Head(b))
    ELSE StringLess(Tail(a), Tail(b))

\* transactions.map(t => t.id).sort()
RECURSIVE SortStrings(_)
SortStrings(strings) ==
    IF strings = <<>> THEN <<>>
    ELSE LET last == strings[Len(strings)]
             before == SortStrings(SubSeq(strings, 1, Len(strings) - 1))
         IN  SelectSeq(before, LAMBDA x : ~StringLess(last, x)) \o <<last>>
               \o SelectSeq(before, LAMBDA x : StringLess(last, x))

\* .join(',')
RECURSIVE Join(_)
Join(strings) ==
    IF strings = <<>> THEN <<>>
    ELSE IF Len(strings) = 1 THEN strings[1]
    ELSE strings[1] \o <<",">> \o Join(Tail(strings))

\* simpleHash(str): hash = ((hash << 5) - hash) + char, kept to 32 bits; the
\* hash is held as its two 16-bit halves so that the product wraps as the
\* 32-bit integer does
RECURSIVE HashHalves(_, _, _)
HashHalves(str, high, low) ==
    IF str = <<>> THEN [high |-> high, low |-> low]
    ELSE LET lowSum == 31 * low + CharCode(Head(str))
             highSum == 31 * high + lowSum \div 65536
         IN  HashHalves(Tail(str), highSum % 65536, lowSum % 65536)

simpleHash(str) ==
    LET halves == HashHalves(str, 0, 0)
    IN  IF halves.high >= 32768
        THEN (halves.high - 65536) * 65536 + halves.low
        ELSE halves.high * 65536 + halves.low

\* generateCacheKey(transactions): the hash the key 'stats_' + hash is made of
generateCacheKey(transactions) ==
    simpleHash(Join(SortStrings([i \in 1..Len(transactions) |-> transactions[i].id.s])))

\* this.cacheTimeout = 5 * 60 * 1000
cacheTimeout == 300000

\* an entry older than the timeout by one more millisecond still counts as fresh
CacheFreshInclusive(age) == age <= cacheTimeout

\* (Date.now() - cached.timestamp) < this.cacheTimeout
CacheFresh(age) == age < cacheTimeout

\* a snapshot: the object computeStats returned, with the time it was
\* computed at and the list it was computed from
Snapshot(transactions, now) ==
    [data |-> computeStats(transactions, now), computedAt |-> now, from |-> transactions]

\* cleanCache() at the time now
cleanCache(cache, now) ==
    [key \in {k \in DOMAIN cache : ~(now - cache[k].timestamp > cacheTimeout)} |-> cache[key]]

\* calculateStats(transactions)
calculateStats(transactions) ==
    LET cacheKey == generateCacheKey(transactions)
        hit == /\ cacheKey \in DOMAIN statsCache
               /\ CacheFresh(clock - statsCache[cacheKey].timestamp)
        stats == Snapshot(transactions, clock)
        stored == [key \in DOMAIN statsCache \cup {cacheKey} |->
                      IF key = cacheKey THEN [data |-> stats, timestamp |-> clock]
                      ELSE statsCache[key]]
    IN  /\ IF hit
           THEN /\ ret' = Returned("calculateStats",
                                   [list |-> transactions, at |-> clock, computed |-> FALSE,
                                    snapshot |-> statsCache[cacheKey].data])
                /\ UNCHANGED statsCache
           ELSE /\ ret' = Returned("calculateStats",
                                   [list |-> transactions, at |-> clock, computed |-> TRUE,
                                    snapshot |-> stats])
                /\ statsCache' = cleanCache(stored, clock)
        /\ UNCHANGED <<storeVars, hostVars, clock, memVars, lastSaved, created, notifyVars,
                       searchVars>>

\* clearCache()
clearCache ==
    /\ statsCache' = [key \in {} |-> 0]
    /\ ret' = Returned("clearCache", <<>>)
    /\ UNCHANGED <<storeVars, hostVars, clock, memVars, lastSaved, created, notifyVars, searchVars>>

\* q >= k for a computed number q (no comparison with NaN holds)
AtLeast(q, k) ==
    \/ q.t = "Infinity" /\ q.num > 0
    \/ q.t = "number" /\ q.num >= k * q.den

\* Math.min(q, k), Math.max(q, k): NaN when q is NaN
MathMin(q, k) == IF q.t = "NaN" THEN q ELSE IF AtLeast(q, k) THEN Whole(k) ELSE q
MathMax(q, k) == IF q.t = "NaN" THEN q ELSE IF AtLeast(q, k) THEN q ELSE Whole(k)

\* getBudgetStatus with the thresholds one step up
getBudgetStatusLenient(percentageUsed) ==
    IF AtLeast(percentageUsed, 101) THEN "over"
    ELSE IF AtLeast(percentageUsed, 91) THEN "critical"
    ELSE IF AtLeast(percentageUsed, 76) THEN "warning"
    ELSE "good"

\* getBudgetStatus(percentageUsed)
getBudgetStatus(percentageUsed) ==
    IF AtLeast(percentageUsed, 100) THEN "over"
    ELSE IF AtLeast(percentageUsed, 90) THEN "critical"
    ELSE IF AtLeast(percentageUsed, 75) THEN "warning"
    ELSE "good"

\* new Date().toISOString().slice(0, 7)
CurrentMonth(now) == SubSeq(IsoOfDay(Today(now)), 1, 7)

\* analyzeBudgetPerformance(transactions, budgets): budgets maps a category
\* to its budget, in thousandths
analyzeBudgetPerformance(transactions, budgets, now) ==
    [category \in DOMAIN budgets |->
        LET budgetAmount == budgets[category]
            counted == SelectSeq(transactions,
                                 LAMBDA t : /\ SubSeq(t.date.s, 1, 7) = CurrentMonth(now)
                                            /\ t.category.s = category)
            monthlySpending == SumAmounts(counted)
            percentageUsed == Quotient(100 * monthlySpending, budgetAmount)
        IN  [budget |-> Whole(budgetAmount),
             spent |-> Whole(monthlySpending),
             remaining |-> Whole(budgetAmount - monthlySpending),
             percentageUsed |-> MathMin(percentageUsed, 100),
             status |-> getBudgetStatus(percentageUsed)]]

RECURSIVE GcdOfAmounts(_)
GcdOfAmounts(transactions) ==
    IF transactions = <<>> THEN 0
    ELSE Gcd(Abs(Head(transactions).amount.n), GcdOfAmounts(Tail(transactions)))

\* the sum of the squares of (30 * n - sum) over the numbers: 900 times the
\* numerator of calculateVariance(numbers) for 30 numbers
RECURSIVE SquaredDifferences(_, _)
SquaredDifferences(numbers, sum) ==
    IF numbers = <<>> THEN 0
    ELSE (30 * Head(numbers) - sum) * (30 * Head(numbers) - sum)
           + SquaredDifferences(Tail(numbers), sum)

RECURSIVE SumNumbers(_)
SumNumbers(numbers) ==
    IF numbers = <<>> THEN 0 ELSE Head(numbers) + SumNumbers(Tail(numbers))

\* forecastSpending(transactions, days) at the time now.  The amounts are
\* divided by their common divisor unit before they are squared:
\* 100 - (variance / dailyAverage) * 10, with amounts a = unit * x / 1000, is
\* 100 - unit * sum((30 x - sum x)^2) / (90000 * sum of the recent x).
forecastSpending(transactions, days, now) ==
    LET cutoffDay == Today(now) - 30
        recentTransactions ==
            SelectSeq(transactions,
                      LAMBDA t : \/ DayOf(t.date.s) > cutoffDay
                                 \/ DayOf(t.date.s) = cutoffDay /\ TimeOfDay(now) = 0)
        totalAmount == SumAmounts(recentTransactions)
        unit == GcdOfAmounts(recentTransactions)
        trends == getDailyTrends(recentTransactions, 30, now)
        dailyAmounts == [k \in 1..30 |-> IF unit = 0 THEN 0 ELSE trends[k].amount.num \div unit]
        squares == SquaredDifferences(dailyAmounts, SumNumbers(dailyAmounts))
        spread == IF unit = 0 THEN Quotient(0, 0)
                  ELSE LET perUnit == Quotient(squares, 90 * (totalAmount \div unit))
                           scale == Quotient(unit, 1000)
                       IN  Quotient(perUnit.num * scale.num, perUnit.den * scale.den)
        raw == IF spread.t = "number"
               THEN Quotient(100 * spread.den - spread.num, spread.den)
               ELSE spread
    IN  IF recentTransactions = <<>>
        THEN [dailyAverage |-> Whole(0), forecast |-> Whole(0), confidence |-> Whole(0)]
        ELSE [dailyAverage |-> Quotient(totalAmount, 30),
              forecast |-> Quotient(totalAmount * days, 30),
              confidence |-> MathMax(MathMin(raw, 100), 0)]

(***************************************************************************)
(* The combined search of scripts/search.js                                *)
(***************************************************************************)
\* a criterion that is not supplied
NotSupplied == JUndefined

\* new Date(a) < new Date(b) for date strings of calendar days
DateBefore(a, b) == DayOf(a) < DayOf(b)

\* the amount filter of advancedSearch
AmountInRange(t, criteria) ==
    /\ ~(criteria.minAmount.t = "number" /\ t.amount.t = "number"
         /\ t.amount.n < criteria.minAmount.n)
    /\ ~(criteria.maxAmount.t = "number" /\ t.amount.t = "number"
         /\ t.amount.n > criteria.maxAmount.n)

\* the date filter of advancedSearch
DateInRange(t, criteria) ==
    /\ ~(Truthy(criteria.startDate) /\ DateBefore(t.date.s, criteria.startDate.s))
    /\ ~(Truthy(criteria.endDate) /\ DateBefore(criteria.endDate.s, t.date.s))

\* advancedSearch(transactions, criteria)
advancedSearch(transactions, criteria) ==
    LET regex == compileRegex(lastCompiled, criteria.text.s, criteria.caseInsensitive)
        textApplied == Truthy(criteria.text) /\ regex.ok
        byText == IF textApplied
                  THEN FilterMatching(transactions, criteria.text.s, criteria.caseInsensitive,
                                      regex.regex.lastIndex)
                  ELSE [items |-> transactions, lastIndex |-> 0]
        byAmount == IF criteria.minAmount.t # "undefined" \/ criteria.maxAmount.t # "undefined"
                    THEN SelectSeq(byText.items, LAMBDA t : AmountInRange(t, criteria))
                    ELSE byText.items
        byDate == IF Truthy(criteria.startDate) \/ Truthy(criteria.endDate)
                  THEN SelectSeq(byAmount, LAMBDA t : DateInRange(t, criteria))
                  ELSE byAmount
        byCategory == IF criteria.categories # {}
                      THEN SelectSeq(byDate, LAMBDA t : t.category.s \in criteria.categories)
                      ELSE byDate
    IN  /\ lastCompiled' = IF textApplied
                           THEN Matcher(criteria.text.s, criteria.caseInsensitive,
                                        byText.lastIndex)
                           ELSE lastCompiled
        /\ searchError' = IF Truthy(criteria.text) /\ ~regex.ok THEN regex.error
                          ELSE searchError
        /\ ret' = Returned("advancedSearch",
                           [list |-> transactions, criteria |-> criteria,
                            results |-> byCategory])
        /\ UNCHANGED <<storeVars, hostVars, clock, memVars, lastSaved, created, notifyVars,
                       searchHistory, searchUses, statsCache>>

(***************************************************************************)
(* CSV (scripts/storage.js): the text exportToCSV writes and the lists     *)
(* parseCSV and importFromCSV read.                                        *)
(***************************************************************************)
Includes(s, c) == \E i \in 1..Len(s) : s[i] = c

\* stringField.replace(/"/g, '""')
RECURSIVE DoubleQuotes(_)
DoubleQuotes(s) ==
    IF s = <<>> THEN <<>>
    ELSE (IF Head(s) = "\"" THEN <<"\"", "\"">> ELSE <<Head(s)>>) \o DoubleQuotes(Tail(s))

\* escapeCSVField that wraps the field without doubling its quotes
escapeCSVFieldPlainWrap(field) ==
    IF field.t \in {"null", "undefined", "absent"} THEN <<>>
    ELSE LET stringField == ToStringChars(field)
         IN  IF \E c \in {",", "\"", "\n", "\r"} : Includes(stringField, c)
             THEN <<"\"">> \o stringField \o <<"\"">>
             ELSE stringField

\* escapeCSVField(field)
escapeCSVField(field) ==
    IF field.t \in {"null", "undefined", "absent"} THEN <<>>
    ELSE LET stringField == ToStringChars(field)
         IN  IF \E c \in {",", "\"", "\n", "\r"} : Includes(stringField, c)
             THEN <<"\"">> \o DoubleQuotes(stringField) \o <<"\"">>
             ELSE stringField

\* array.join(separator) of strings
RECURSIVE JoinWith(_, _)
JoinWith(strings, separator) ==
    IF strings = <<>> THEN <<>>
    ELSE IF Len(strings) = 1 THEN strings[1]
    ELSE strings[1] \o separator \o JoinWith(Tail(strings), separator)

CsvHeaders ==
    << <<"I", "D">>, <<"D", "a", "t", "e">>,
       <<"D", "e", "s", "c", "r", "i", "p", "t", "i", "o", "n">>,
       <<"A", "m", "o", "u", "n", "t">>, <<"C", "a", "t", "e", "g", "o", "r", "y">>,
       <<"C", "r", "e", "a", "t", "e", "d", " ", "A", "t">>,
       <<"U", "p", "d", "a", "t", "e", "d", " ", "A", "t">> >>

\* the row exportToCSV makes of a transaction
CsvRow(transaction) ==
    <<escapeCSVField(transaction.id), escapeCSVField(transaction.date),
      escapeCSVField(transaction.description),
      escapeCSVField(JStr(ToStringChars(transaction.amount))),
      escapeCSVField(transaction.category), escapeCSVField(transaction.createdAt),
      escapeCSVField(transaction.updatedAt)>>

\* exportToCSV(transactions), for a non-empty list of records with an amount
exportToCSV(transactions) ==
    LET rows == <<CsvHeaders>> \o [i \in 1..Len(transactions) |-> CsvRow(transactions[i])]
    IN  <<BOM>> \o JoinWith([i \in 1..Len(rows) |-> JoinWith(rows[i], <<",">>)],
                            <<"\r", "\n">>)

\* csvText.split(/\r?\n/): the text between one line feed and the next,
\* without the carriage return before the line feed
SplitLines(text) ==
    LET feeds == {i \in 1..Len(text) : text[i] = "\n"}
        feed(k) == IF k = 0 THEN 0
                   ELSE IF k > Cardinality(feeds) THEN Len(text) + 1
                   ELSE CHOOSE i \in feeds : Cardinality({j \in feeds : j < i}) = k - 1
        last(k) == IF /\ k <= Cardinality(feeds)
                      /\ feed(k) - 1 > feed(k - 1)
                      /\ text[feed(k) - 1] = "\r"
                   THEN feed(k) - 2 ELSE feed(k) - 1
    IN  [k \in 1..(Cardinality(feeds) + 1) |-> SubSeq(text, feed(k - 1) + 1, last(k))]

\* one turn of the while loop of parseCSV: skip is set when the turn before
\* consumed this character as the second quote of an escaped quote
ParseChar(state, row, j) ==
    LET char == row[j]
    IN  IF state.skip THEN [state EXCEPT !.skip = FALSE]
        ELSE IF char = "\"" /\ ~state.inQuotes THEN [state EXCEPT !.inQuotes = TRUE]
        ELSE IF char = "\"" /\ state.inQuotes
        THEN IF j + 1 <= Len(row) /\ row[j + 1] = "\""
             THEN [state EXCEPT !.currentField = Append(@, "\""), !.skip = TRUE]
             ELSE [state EXCEPT !.inQuotes = FALSE]
        ELSE IF char = "," /\ ~state.inQuotes
        THEN [state EXCEPT !.fields = Append(@, state.currentField), !.currentField = <<>>]
        ELSE [state EXCEPT !.currentField = Append(@, char)]

\* the turns of the loop for the characters from to upTo, in order (the test
\* on half has the first half computed before the second is entered)
RECURSIVE ParseChars(_, _, _, _)
ParseChars(state, row, from, upTo) ==
    IF from > upTo THEN state
    ELSE IF from = upTo THEN ParseChar(state, row, from)
    ELSE LET middle == (from + upTo) \div 2
             half == ParseChars(state, row, from, middle)
         IN  IF half.skip /\ middle = upTo THEN half
             ELSE ParseChars(half, row, middle + 1, upTo)

\* the fields parseCSV makes of a row
ParseRow(row) ==
    LET start == [fields |-> <<>>, currentField |-> <<>>, inQuotes |-> FALSE, skip |-> FALSE]
        end == ParseChars(start, row, 1, Len(row))
    IN  Append(end.fields, end.currentField)

\* parseCSV(csvText)
parseCSV(csvText) ==
    LET rows == SplitLines(csvText)
        trimmed == [i \in 1..Len(rows) |-> Trim(rows[i])]
        kept == SelectSeq(trimmed, LAMBDA row : row # <<>>)
    IN  [i \in 1..Len(kept) |-> ParseRow(kept[i])]

\* the digits at the head of a string
RECURSIVE LeadingDigits(_)
LeadingDigits(s) ==
    IF s = <<>> \/ Head(s) \notin Digits THEN <<>>
    ELSE <<Head(s)>> \o LeadingDigits(Tail(s))

\* parseFloat(string): the longest decimal literal at the head of the
\* trimmed string, NaN when there is none; thousandths are kept
parseFloat(string) ==
    LET trimmed == TrimLeft(string)
        negative == trimmed # <<>> /\ Head(trimmed) = "-"
        signed == trimmed # <<>> /\ Head(trimmed) \in {"-", "+"}
        body == IF signed THEN Tail(trimmed) ELSE trimmed
        int == LeadingDigits(body)
        rest == SubSeq(body, Len(int) + 1, Len(body))
        frac == IF rest # <<>> /\ Head(rest) = "." THEN LeadingDigits(Tail(rest)) ELSE <<>>
        padded == SubSeq(frac \o <<"0", "0", "0">>, 1, 3)
        magnitude == 1000 * CharsToNat(int) + CharsToNat(padded)
    IN  IF Len(body) >= 8 /\ SubSeq(body, 1, 8) = <<"I", "n", "f", "i", "n", "i", "t", "y">>
        THEN JInfinity
        ELSE IF int = <<>> /\ frac = <<>> THEN JNaN
        ELSE JNum(IF negative THEN 0 - magnitude ELSE magnitude)

\* row[k], undefined past the end of the row
FieldAt(row, k) == IF k <= Len(row) THEN JStr(row[k]) ELSE JUndefined

\* the id generateId() returns: no other record has it
GeneratedId == <<"t", "x", "n", "_", "n", "e", "w">>

\* new Date().toISOString()
NowStamp == <<"2", "0", "2", "5", "-", "1", "0", "-", "1", "6", "T", "0", "9", ":", "0", "0", "Z">>

\* the transaction importFromCSV makes of a row
RowTransaction(row) ==
    LET amount == parseFloat(row[4])
    IN  [kind |-> "object",
         id |-> IF row[1] # <<>> THEN JStr(row[1]) ELSE JStr(GeneratedId),
         date |-> JStr(row[2]),
         description |-> JStr(row[3]),
         amount |-> IF amount.t = "NaN" \/ amount = JNum(0) THEN JNum(0) ELSE amount,
         category |-> JStr(row[5]),
         createdAt |-> IF Truthy(FieldAt(row, 6)) THEN FieldAt(row, 6) ELSE JStr(NowStamp),
         updatedAt |-> IF Truthy(FieldAt(row, 7)) THEN FieldAt(row, 7) ELSE JStr(NowStamp)]

\* importFromCSV(csvText): the list returned, or the error thrown
importFromCSV(csvText) ==
    LET lines == parseCSV(csvText)
        rows == SelectSeq(Tail(lines), LAMBDA row : Len(row) >= 5)
        made == [i \in 1..Len(rows) |-> RowTransaction(rows[i])]
    IN  IF Len(lines) < 2
        THEN [threw |-> TRUE, transactions |-> <<>>]
        ELSE [threw |-> FALSE, transactions |-> SelectSeq(made, StoreValidateTransaction)]

(***************************************************************************)
(* The transactions document: any document may be found in the store; the  *)
(* caller saves any list and loads.                                        *)
(***************************************************************************)
FoundDocs ==
    {AbsentDoc, [kind |-> "empty", items |-> <<>>], [kind |-> "garbage", items |-> <<>>],
     [kind |-> "nonlist", items |-> <<>>]}
      \cup {ListDoc(items) : items \in StoredLists}

InitStore ==
    /\ txDoc \in FoundDocs
    /\ settingsDoc = AbsentSettingsDoc
    /\ versionDoc = <<>>
    /\ backups = NoBackups
    /\ quota = AmpleQuota
    /\ clock = 0
    /\ tzOffset \in TzOffsets
    /\ memTx = <<>>
    /\ memSettings = getDefaultSettings
    /\ ret = Returned("", <<>>)
    /\ lastSaved = NotSaved
    /\ created = {}
    /\ EnginesConstructed

NextStore ==
    \/ \E items \in ArgLists : saveTransactions(ListArg(items), "none")
    \/ saveTransactions(NonListArg, "none")
    \/ loadTransactions
    \/ clearTransactions

SpecStore == InitStore /\ [][NextStore]_vars

(***************************************************************************)
(* The store at its capacity: saves of valid and invalid records into a    *)
(* store whose quota is near the size of the documents, with I/O failures. *)
(***************************************************************************)
QuotaLists == Lists({Lunch, Novel, Negative}) \cup {<<NullElement>>}

OneRecordLen == TextLen(JsonItems(<<Lunch>>))

\* room for: the probe of one record but not its commit into an empty store;
\* one stored record; one stored record and the probe of another; anything
QuotaSamples ==
    {TestKeyLen + OneRecordLen,
     TransactionsKeyLen + OneRecordLen,
     TransactionsKeyLen + OneRecordLen + TestKeyLen + OneRecordLen,
     AmpleQuota}

InitQuota ==
    /\ quota \in QuotaSamples
    /\ txDoc \in {AbsentDoc, ListDoc(JsonItems(<<Lunch>>))}
    /\ DocFootprint(txDoc, TransactionsKeyLen) <= quota
    /\ settingsDoc = AbsentSettingsDoc
    /\ versionDoc = <<>>
    /\ backups = NoBackups
    /\ clock = 0
    /\ tzOffset = 0
    /\ memTx = <<>>
    /\ memSettings = getDefaultSettings
    /\ ret = Returned("", <<>>)
    /\ lastSaved = NotSaved
    /\ created = {}
    /\ EnginesConstructed

NextQuota ==
    \/ \E items \in QuotaLists, fault \in {"none", "probe", "commit"} :
          saveTransactions(ListArg(items), fault)
    \/ saveTransactions(NonListArg, "none")
    \/ loadTransactions
    \/ clearTransactions

SpecQuota == InitQuota /\ [][NextQuota]_vars

(***************************************************************************)
(* The settings document and the version marker: construction over any     *)
(* store, saves of any settings object.                                    *)
(***************************************************************************)
clearAllData ==
    /\ txDoc' = AbsentDoc
    /\ settingsDoc' = AbsentSettingsDoc
    /\ versionDoc' = <<>>
    /\ ret' = Returned("clearAllData", <<>>)
    /\ lastSaved' = NotSaved
    /\ UNCHANGED <<backups, hostVars, clock, memVars, created, engineVars>>

InitSettings ==
    /\ settingsDoc \in FoundSettingsDocs
    /\ versionDoc \in {<<>>, OlderVersion, CurrentVersion}
    /\ quota \in {SettingsKeyLen + SettingsLen(getDefaultSettings), AmpleQuota}
    /\ SettingsFootprint(settingsDoc) + VersionFootprint(versionDoc) <= quota
    /\ txDoc = AbsentDoc
    /\ backups = NoBackups
    /\ clock = 0
    /\ tzOffset = 0
    /\ memTx = <<>>
    /\ memSettings = getDefaultSettings
    /\ ret = Returned("", <<>>)
    /\ lastSaved = NotSaved
    /\ created = {}
    /\ EnginesConstructed

NextSettings ==
    \/ construct
    \/ \E value \in SettingsSamples : saveSettings(ObjectArg(value), FALSE)
    \/ saveSettings(NonObjectArg, FALSE)
    \/ saveSettings(ObjectArg(DarkTheme), TRUE)
    \/ clearSettings
    \/ clearAllData

SpecSettings == InitSettings /\ [][NextSettings]_vars

(***************************************************************************)
(* Import: the coordinator, started over a store this application wrote,   *)
(* imports any payload and changes settings; the store's own importData is *)
(* called with any payload.                                                *)
(***************************************************************************)
TxParts ==
    {TxPart("absent", <<>>), TxPart("falsy", <<>>), TxPart("truthy", <<>>),
     TxPart("array", JsonItems(<<Novel>>)),
     TxPart("array", JsonItems(<<Novel, NullElement>>))}

SettingsParts ==
    {SettingsPart("absent", EmptySettings), SettingsPart("string", EmptySettings),
     SettingsPart("object", DarkTheme), SettingsPart("object", LongCurrency)}

Payloads ==
    {Payload("object", tx, st) : tx \in TxParts, st \in SettingsParts}
      \cup {Payload("null", TxPart("absent", <<>>), SettingsPart("absent", EmptySettings)),
            Payload("garbage", TxPart("absent", <<>>), SettingsPart("absent", EmptySettings))}

InitImport ==
    /\ txDoc \in {AbsentDoc, ListDoc(JsonItems(<<Lunch>>))}
    /\ settingsDoc \in {AbsentSettingsDoc, SettingsDoc(JsonSettings(validateSettings(CapFiftyEuro)))}
    /\ versionDoc = CurrentVersion
    /\ backups = NoBackups
    /\ quota = AmpleQuota
    /\ clock = 0
    /\ tzOffset = 0
    /\ memTx = LoadTransactionsResult(txDoc)
    /\ memSettings = loadSettings(settingsDoc)
    /\ ret = Returned("", <<>>)
    /\ lastSaved = NotSaved
    /\ created = {}
    /\ EnginesConstructed

NextImport ==
    \/ \E data \in Payloads : AppImportData(data)
    \/ \E data \in Payloads : StorageImportData(data)
    \/ \E cap \in {JNum(20000), JNaN} : AppSetSpendingCap(cap)
    \/ \E eur \in {JNum(900), JNaN} : AppSaveCurrencySettings(JStr(USD), eur, JNum(750))

SpecImport == InitImport /\ [][NextImport]_vars

(***************************************************************************)
(* Backups: the store takes backups while the host's clock advances, or is *)
(* set back (Date.now() is the wall clock), and the list is saved.         *)
(***************************************************************************)
MaxClock == 4

Tick ==
    /\ clock < MaxClock
    /\ clock' = clock + 1
    /\ UNCHANGED <<storeVars, hostVars, memVars, ret, lastSaved, created, engineVars>>

ClockSetBack ==
    /\ clock' \in 0..(clock - 1)
    /\ UNCHANGED <<storeVars, hostVars, memVars, ret, lastSaved, created, engineVars>>

InitBackup ==
    /\ txDoc \in {AbsentDoc, ListDoc(JsonItems(<<Lunch>>))}
    /\ settingsDoc \in {AbsentSettingsDoc, SettingsDoc(JsonSettings(validateSettings(DarkTheme)))}
    /\ versionDoc = CurrentVersion
    /\ backups = NoBackups
    /\ quota = AmpleQuota
    /\ clock = 0
    /\ tzOffset = 0
    /\ memTx = <<>>
    /\ memSettings = getDefaultSettings
    /\ ret = Returned("", <<>>)
    /\ lastSaved = NotSaved
    /\ created = {}
    /\ EnginesConstructed

NextBackup ==
    \/ \E fault \in BOOLEAN : createBackup(fault)
    \/ Tick
    \/ ClockSetBack
    \/ saveTransactions(ListArg(<<Novel>>), "none")

SpecBackup == InitBackup /\ [][NextBackup]_vars

(***************************************************************************)
(* Search: record lists are searched for patterns of every kind: empty,    *)
(* blank, malformed, and compiling ones, with either case flag.            *)
(***************************************************************************)
LunchBox ==
    Txn(<<"t", "3">>, <<"L", "u", "n", "c", "h", " ", "b", "o", "x">>, JNum(1234560), Other,
        Date20251015)

SearchLists ==
    {<<>>, <<Lunch>>, <<Lunch, Lunch>>, <<LunchBox, Lunch>>, <<Novel, LunchBox>>}

PatternLunch == <<"l", "u", "n", "c", "h">>
PatternGrouped == <<"$", "1", ".", "2">>
MalformedPatterns == {<<"(">>, <<"[", "a">>, <<"*">>}
CompilingPatterns == {PatternLunch, PatternGrouped}
SearchPatterns == {<<>>, <<" ">>} \cup MalformedPatterns \cup CompilingPatterns

\* the most a history entry is used
MaxUses == 2

\* the most successful searches the history entries count in all
MaxSearches == 3

RECURSIVE SearchesCounted(_)
SearchesCounted(history) ==
    IF history = <<>> THEN 0 ELSE Head(history).useCount + SearchesCounted(Tail(history))

InitSearch ==
    /\ txDoc = AbsentDoc
    /\ settingsDoc = AbsentSettingsDoc
    /\ versionDoc = CurrentVersion
    /\ backups = NoBackups
    /\ quota = AmpleQuota
    /\ clock = 0
    /\ tzOffset = 0
    /\ memTx = <<>>
    /\ memSettings = getDefaultSettings
    /\ ret = Returned("", <<>>)
    /\ lastSaved = NotSaved
    /\ created = {}
    /\ EnginesConstructed

NextSearch ==
    \/ \E transactions \in SearchLists, pattern \in SearchPatterns, caseInsensitive \in BOOLEAN :
          /\ SearchesCounted(searchHistory) < MaxSearches
          /\ searchTransactions(transactions, pattern, caseInsensitive)
    \/ clearSearchHistory

SpecSearch == InitSearch /\ [][NextSearch]_vars

(***************************************************************************)
(* Search history: one more pair than the history holds, each searched for *)
(* the first time only after the pair before it (the pairs differ in name  *)
(* only), mixed with empty and malformed searches.                         *)
(***************************************************************************)
HistoryPairs ==
    [i \in 1..(maxHistoryItems + 1) |->
        IF i = 1 THEN <<<<"a">>, TRUE>>
        ELSE IF i = 2 THEN <<<<"a">>, FALSE>>
        ELSE <<<<LowerCase[i - 1]>>, TRUE>>]

\* the most entries of the history used more than once
MaxRepeats == 2

RECURSIVE Repeats(_)
Repeats(history) ==
    IF history = <<>> THEN 0
    ELSE (IF Head(history).useCount > 1 THEN 1 ELSE 0) + Repeats(Tail(history))

MayRepeat(pair) ==
    \A i \in 1..Len(searchHistory) :
        SamePair(searchHistory[i], pair[1], pair[2])
            => /\ searchHistory[i].useCount < MaxUses
               /\ searchHistory[i].useCount > 1 \/ Repeats(searchHistory) < MaxRepeats

NextHistory ==
    \/ \E i \in DOMAIN HistoryPairs :
          /\ IF i = 1 THEN TRUE ELSE HistoryPairs[i - 1] \in DOMAIN searchUses
          /\ MayRepeat(HistoryPairs[i])
          /\ searchTransactions(<<Lunch>>, HistoryPairs[i][1], HistoryPairs[i][2])
    \/ \E pattern \in {<<>>, <<"(">>} : searchTransactions(<<Lunch>>, pattern, TRUE)
    \/ clearSearchHistory

SpecHistory == InitSearch /\ [][NextHistory]_vars

(***************************************************************************)
(* Dates: validateDate is applied to date strings of every shape, on hosts *)
(* west of UTC and at UTC.                                                 *)
(***************************************************************************)
DateStrings ==
    {IsoDate(y, m, d) : y \in {2024, 2025}, m \in {0, 1, 2, 4, 12, 13},
                        d \in {0, 1, 28, 29, 30, 31, 32}}
      \cup {<<"2", "5", "-", "1", "0", "-", "1", "5">>,
            <<"2", "0", "2", "5", "/", "1", "0", "/", "1", "5">>,
            <<"2", "0", "2", "5", "-", "1", "0", "-", "1", "5", " ">>, <<>>}

\* validators.validateDate(value) for a string typed into the date field
ValidateDateCall(dateString) ==
    /\ ret' = Returned("validateDate",
                       [input |-> dateString, valid |-> validateDate(JStr(dateString), tzOffset)])
    /\ UNCHANGED <<storeVars, hostVars, clock, memVars, lastSaved, created, engineVars>>

InitDates ==
    /\ tzOffset \in TzOffsets
    /\ txDoc = AbsentDoc
    /\ settingsDoc = AbsentSettingsDoc
    /\ versionDoc = CurrentVersion
    /\ backups = NoBackups
    /\ quota = AmpleQuota
    /\ clock = 0
    /\ memTx = <<>>
    /\ memSettings = getDefaultSettings
    /\ ret = Returned("", <<>>)
    /\ lastSaved = NotSaved
    /\ created = {}
    /\ EnginesConstructed

NextDates == \E dateString \in DateStrings : ValidateDateCall(dateString)

SpecDates == InitDates /\ [][NextDates]_vars

(***************************************************************************)
(* Statistics cache: lists that share their ids but not their content,     *)
(* and lists whose ids differ but hash alike, are summarised while time    *)
(* passes in steps that straddle the cache timeout.                        *)
(***************************************************************************)
LunchDearer == [Lunch EXCEPT !.amount = JNum(20000), !.category = JStr(Books)]

\* 'an' and 'c0' hash alike: 97 * 31 + 110 = 99 * 31 + 48
BusFare == Txn(<<"a", "n">>, <<"B", "u", "s">>, JNum(3000), Transport, Date20251015)
Film == Txn(<<"c", "0">>, <<"F", "i", "l", "m">>, JNum(9000), Entertainment, Date20251015)

StatsLists == {<<>>, <<Lunch>>, <<LunchDearer>>, <<BusFare>>, <<Film>>}

TimeSteps == {cacheTimeout - 1, cacheTimeout, cacheTimeout + 1}

\* the latest time on the clock, in milliseconds
MaxElapsed == 600002

\* time passes between two calls
Elapse(d) ==
    /\ clock + d <= MaxElapsed
    /\ clock' = clock + d
    /\ UNCHANGED <<storeVars, hostVars, memVars, ret, lastSaved, created, engineVars>>

NextStats ==
    \/ \E transactions \in StatsLists : calculateStats(transactions)
    \/ \E d \in TimeSteps : Elapse(d)
    \/ clearCache

SpecStats == InitSearch /\ [][NextStats]_vars

(***************************************************************************)
(* Analyses: the summary, the budget analysis and the forecast are made of *)
(* lists with records of this month, of last month, of the day thirty      *)
(* days back and of amount zero, at midnight and later in the day.         *)
(***************************************************************************)
Groceries ==
    Txn(<<"t", "4">>, <<"G", "r", "o", "c", "e", "r", "y">>, JNum(9000), Food,
        IsoDate(2025, 10, 1))
LastMonthFood ==
    Txn(<<"t", "5">>, <<"S", "n", "a", "c", "k">>, JNum(4000), Food, IsoDate(2025, 9, 30))
ThirtyDaysBack ==
    Txn(<<"t", "6">>, <<"T", "e", "a">>, JNum(1000), Food, IsoDate(2025, 9, 15))

AnalysisLists ==
    {<<>>, <<Lunch>>, <<Novel>>, <<Groceries>>, <<Groceries, LastMonthFood>>,
     <<Groceries, Film>>, <<Lunch, Groceries>>, <<ThirtyDaysBack>>}

\* budgets of the category Food, in thousandths: the spendings of the lists
\* meet them at, just under and well over the thresholds
FoodBudgets == {9000, 10000, 10001, 12000, 12001, 100000}
BudgetsWith(food) == [category \in {Food, Books} |-> IF category = Food THEN food ELSE 5000]

Horizons == {7, 30}

ComputeStatsCall(transactions) ==
    /\ ret' = Returned("computeStats",
                       [list |-> transactions, at |-> clock,
                        stats |-> computeStats(transactions, clock)])
    /\ UNCHANGED <<storeVars, hostVars, clock, memVars, lastSaved, created, engineVars>>

AnalyzeBudgetCall(transactions, budgets) ==
    /\ ret' = Returned("analyzeBudgetPerformance",
                       [list |-> transactions, budgets |-> budgets, at |-> clock,
                        analysis |-> analyzeBudgetPerformance(transactions, budgets, clock)])
    /\ UNCHANGED <<storeVars, hostVars, clock, memVars, lastSaved, created, engineVars>>

ForecastCall(transactions, days) ==
    /\ ret' = Returned("forecastSpending",
                       [list |-> transactions, days |-> days, at |-> clock,
                        result |-> forecastSpending(transactions, days, clock)])
    /\ UNCHANGED <<storeVars, hostVars, clock, memVars, lastSaved, created, engineVars>>

NextAnalysis ==
    \/ \E transactions \in AnalysisLists : ComputeStatsCall(transactions)
    \/ \E transactions \in AnalysisLists, food \in FoodBudgets :
          AnalyzeBudgetCall(transactions, BudgetsWith(food))
    \/ \E transactions \in AnalysisLists, days \in Horizons : ForecastCall(transactions, days)
    \/ \E d \in TimeSteps : Elapse(d)

SpecAnalysis == InitSearch /\ [][NextAnalysis]_vars

(***************************************************************************)
(* CSV: lists of records whose descriptions hold commas, quotes and line   *)
(* breaks are exported and imported back; texts written by hand are        *)
(* imported.                                                               *)
(***************************************************************************)
CsvDescriptions ==
    {<<"L", "u", "n", "c", "h">>, <<"a", ",", "b">>, <<"\"">>, <<"a", "\"">>,
     <<"\"", "a", "\"">>, <<"a", ",", "\"", "b", "\"", ",">>, <<",">>,
     <<"a", "\n", "b">>, <<"a", "\r", "\n", "b">>}

\* an id that begins with a space
SpaceId == Txn(<<" ", "t", "1">>, <<"L", "u", "n", "c", "h">>, JNum(12500), Food, Date20251015)

CsvRecords ==
    {Txn(<<"t", "1">>, description, JNum(12500), Food, Date20251015) :
        description \in CsvDescriptions}
      \cup {Novel, LunchBox, SpaceId}

CsvLists == {<<r>> : r \in CsvRecords} \cup {<<r, q>> : r \in CsvRecords, q \in CsvRecords}

HeaderLine == JoinWith(CsvHeaders, <<",">>)

\* texts not written by exportToCSV: no row, a short row, a row without id
\* and timestamps, a row with an amount that is no number
CsvTexts ==
    {<<>>, HeaderLine,
     HeaderLine \o <<"\n", "t", "1", ",", "x">>,
     HeaderLine \o <<"\n", ",">> \o Date20251015 \o <<",", "x", ",", "5", ",">> \o Food,
     HeaderLine \o <<"\n", "t", "1", ",">> \o Date20251015 \o <<",", "x", ",", "y", ",">> \o Food
        \o <<",", "c", ",", "u", "\n">>}

\* exportToCSV(list) and importFromCSV of the text
ExportImport(transactions) ==
    /\ ret' = Returned("exportImport",
                       [list |-> transactions, csv |-> exportToCSV(transactions),
                        lines |-> parseCSV(exportToCSV(transactions)),
                        imported |-> importFromCSV(exportToCSV(transactions))])
    /\ UNCHANGED <<storeVars, hostVars, clock, memVars, lastSaved, created, engineVars>>

ImportFromCSVCall(csvText) ==
    /\ ret' = Returned("importFromCSV",
                       [csv |-> csvText, imported |-> importFromCSV(csvText)])
    /\ UNCHANGED <<storeVars, hostVars, clock, memVars, lastSaved, created, engineVars>>

NextCsv ==
    \/ \E transactions \in CsvLists : ExportImport(transactions)
    \/ \E csvText \in CsvTexts : ImportFromCSVCall(csvText)

SpecCsv == InitSearch /\ [][NextCsv]_vars

(***************************************************************************)
(* Combined search: lists are searched with criteria that supply any of    *)
(* the text, the amount bounds (zero among them), the date bounds and the  *)
(* categories.                                                             *)
(***************************************************************************)
AdvancedLists == {<<>>, <<Lunch, LunchBox>>, <<Novel, Groceries, Lunch>>}

Criteria(text, minAmount, maxAmount, startDate, endDate, categories) ==
    [text |-> text, caseInsensitive |-> TRUE, minAmount |-> minAmount,
     maxAmount |-> maxAmount, startDate |-> startDate, endDate |-> endDate,
     categories |-> categories]

CriteriaSamples ==
    {Criteria(text, minAmount, maxAmount, startDate, endDate, categories) :
        text \in {NotSupplied, JStr(PatternLunch)},
        minAmount \in {NotSupplied, JNum(12500)},
        maxAmount \in {NotSupplied, JNum(0), JNum(12500)},
        startDate \in {NotSupplied, JStr(Date20251015)},
        endDate \in {NotSupplied, JStr(IsoDate(2025, 10, 1))},
        categories \in {{}, {Food}}}
      \cup {Criteria(JStr(<<"(">>), NotSupplied, NotSupplied, NotSupplied, NotSupplied, {})}

NextAdvanced ==
    \E transactions \in AdvancedLists, criteria \in CriteriaSamples :
        advancedSearch(transactions, criteria)

SpecAdvanced == InitSearch /\ [][NextAdvanced]_vars

(***************************************************************************)
(* Repeated search: the list loaded is searched again and again, and       *)
(* patterns are compiled, with the matcher retained from call to call.     *)
(***************************************************************************)
\* the lists loaded
RepeatLists == {<<Lunch>>, <<LunchBox, Lunch>>}

InitRepeat ==
    /\ memTx \in RepeatLists
    /\ txDoc = AbsentDoc
    /\ settingsDoc = AbsentSettingsDoc
    /\ versionDoc = CurrentVersion
    /\ backups = NoBackups
    /\ quota = AmpleQuota
    /\ clock = 0
    /\ tzOffset = 0
    /\ memSettings = getDefaultSettings
    /\ ret = Returned("", <<>>)
    /\ lastSaved = NotSaved
    /\ created = {}
    /\ EnginesConstructed

NextRepeat ==
    \/ \E query \in SearchPatterns, caseInsensitive \in BOOLEAN :
          /\ SearchesCounted(searchHistory) < MaxSearches
          /\ handleSearch(query, caseInsensitive)
    \/ \E pattern \in SearchPatterns, caseInsensitive \in BOOLEAN :
          CompileRegexCall(pattern, caseInsensitive)
    \/ clearSearchHistory

SpecRepeat == InitRepeat /\ [][NextRepeat]_vars

(***************************************************************************)
(* Claims about the transactions document                                  *)
(***************************************************************************)
\* C1: once saveTransactions(L) has returned, loadTransactions() returns
\* exactly the records of L that pass the store's validation, in their order
\* and with their field values.
C1_LoadReturnsWhatWasSaved ==
    (ret.op = "loadTransactions" /\ lastSaved.set)
        => ret.value = FilterValid(lastSaved.items)

\* an entry of a stored list the store's validation accepts
ValidEntry(t) == t.kind = "object" /\ StoreValidateTransaction(t)

\* C2: loadTransactions never throws; it returns [] when the document is
\* absent, unparseable or no list, and otherwise every valid entry of the
\* list, whatever the invalid entries are.
C2_LoadDropsOnlyInvalidEntries ==
    ret.op = "loadTransactions"
        => /\ ret.status = "ok"
           /\ ret.value = IF txDoc.kind = "list"
                          THEN SelectSeq(txDoc.items, ValidEntry) ELSE <<>>

\* C3: every record saveTransactions persists and every record
\* loadTransactions returns is one Validators.validateTransaction accepts.
C3_StoreKeepsOnlyValidatorValid ==
    /\ (ret.op = "saveTransactions" /\ ret.status = "ok")
          => \A i \in 1..Len(txDoc.items) :
                ValidatorsValidateTransaction(txDoc.items[i], tzOffset)
    /\ ret.op = "loadTransactions"
          => \A i \in 1..Len(ret.value) :
                ValidatorsValidateTransaction(ret.value[i], tzOffset)

(***************************************************************************)
(* Claims about the store's capacity                                       *)
(***************************************************************************)
\* C5: when the store rejects a write of saveTransactions for lack of
\* capacity, the call throws the quota error of saveTransactions, which no
\* other failure of the call is reported with, and the stored transactions
\* document is the one of before.
C5_QuotaErrorDistinguished ==
    [][ret'.op = "saveTransactions"
          => /\ ret'.storeError = QuotaExceededError.name
                  => /\ ret'.status = "throw"
                     /\ ret'.error = SaveQuotaError
                     /\ txDoc' = txDoc
             /\ (ret'.status = "throw" /\ ret'.storeError # QuotaExceededError.name)
                  => ret'.error # SaveQuotaError]_vars

\* C5 happens: a save into a store holding a document was rejected for lack
\* of capacity
C5_Witness ==
    /\ ret.op = "saveTransactions"
    /\ ret.storeError = QuotaExceededError.name
    /\ txDoc.kind = "list"
    /\ Len(txDoc.items) > 0

\* the new document of saveTransactions(items) would fit in the place of the
\* stored one
CommitFits(items) ==
    Used - DocFootprint(txDoc, TransactionsKeyLen)
        + TransactionsKeyLen + TextLen(JsonItems(FilterValid(items))) <= quota

\* C6: the probe of saveTransactions succeeds exactly when the write of the
\* new document in the place of the old one succeeds: a save is rejected for
\* capacity only when the new document would not fit, and is never let past
\* the probe to fail at the commit.
C6_ProbeIsExactGuard ==
    [][\A items \in QuotaLists :
          (saveTransactions(ListArg(items), "none") /\ ~AnyThrows(items))
              => /\ ret'.status = "ok" <=> CommitFits(items)
                 /\ ret'.stage # "commit"]_vars

(***************************************************************************)
(* Claims about the settings document and the version marker               *)
(***************************************************************************)
\* C7: a construction over a store whose version marker is absent or differs
\* from the current version leaves a settings document in the store (the
\* defaults when there was none) and the marker at the current version; a
\* construction over a store whose marker is current writes nothing.
C7_ConstructionEnsuresSettings ==
    [][(ret'.op = "constructor" /\ ret'.status = "ok")
          => IF versionDoc # CurrentVersion
             THEN /\ settingsDoc'.kind # "absent"
                  /\ settingsDoc.kind = "absent"
                        => settingsDoc' = SettingsDoc(JsonSettings(getDefaultSettings))
                  /\ versionDoc' = CurrentVersion
             ELSE UNCHANGED storeVars]_vars

IsCurrencyCode(v) ==
    v.t = "string" /\ Len(v.s) = 3 /\ \A i \in 1..Len(v.s) : v.s[i] \in Letters

NoDuplicates(items) ==
    \A i, j \in 1..Len(items) : items[i] = items[j] => i = j

IsSpendingCap(v) == v.t \in {"null", "absent"} \/ (v.t = "number" /\ v.n > 0)

IsTheme(v) == v.t = "string" /\ v.s \in {Light, Dark}

\* the Settings data model of the stored document
SettingsDataModel(settings) ==
    /\ ~settings.extra
    /\ IsCurrencyCode(settings.baseCurrency)
    /\ settings.exchangeRates.kind = "object"
    /\ \A c \in Currencies :
          settings.exchangeRates[c].t = "absent" \/ RateOk(settings.exchangeRates[c])
    /\ settings.categories.kind = "array"
    /\ \A i \in 1..Len(settings.categories.items) : CategoryOk(settings.categories.items[i])
    /\ NoDuplicates(settings.categories.items)
    /\ settings.spendingCap.t # "absent" /\ IsSpendingCap(settings.spendingCap)
    /\ IsTheme(settings.theme)

\* C8: after saveSettings(s) the stored settings document satisfies the
\* Settings data model, and an input field that fails its rule is stored as
\* the default.
C8_SavedSettingsSatisfyDataModel ==
    [][\A value \in SettingsSamples :
          (saveSettings(ObjectArg(value), FALSE) /\ ret'.status = "ok")
              => /\ SettingsDataModel(settingsDoc'.value)
                 /\ ~IsCurrencyCode(value.baseCurrency)
                        => settingsDoc'.value.baseCurrency = getDefaultSettings.baseCurrency
                 /\ ~IsSpendingCap(value.spendingCap)
                        => settingsDoc'.value.spendingCap = getDefaultSettings.spendingCap
                 /\ ~IsTheme(value.theme)
                        => settingsDoc'.value.theme = getDefaultSettings.theme]_vars

(***************************************************************************)
(* Claims about import.                                                    *)
(***************************************************************************)
PresentNotList(data) ==
    data.kind = "object" /\ data.transactions.kind \in {"falsy", "truthy"}

\* C4: an import whose payload has a transactions value that is not a list
\* ends with an error and changes neither the transactions document, nor the
\* settings document, nor the coordinator's in-memory transaction list.
C4_NonListImportAborts ==
    [][\A data \in Payloads :
          (PresentNotList(data) /\ (AppImportData(data) \/ StorageImportData(data)))
              => /\ ret'.status \in {"error", "throw"}
                 /\ UNCHANGED <<txDoc, settingsDoc, memTx>>]_vars

SettingsKeys == {"baseCurrency", "exchangeRates", "categories", "spendingCap", "theme"}

KeyAbsent(settings, key) ==
    IF key \in {"exchangeRates", "categories"} THEN settings[key].kind = "absent"
    ELSE settings[key].t = "absent"

\* C9: a successful import of a settings object leaves every key the object
\* does not carry at its current value, in the stored settings and, through
\* the coordinator, in memory.
C9_PartialSettingsMerged ==
    [][\A data \in Payloads :
          /\ data.kind = "object" /\ data.settings.kind = "object"
          /\ AppImportData(data) \/ StorageImportData(data)
          /\ ret'.status = "ok"
          => \A key \in SettingsKeys :
                KeyAbsent(data.settings.value, key)
                    => /\ loadSettings(settingsDoc')[key] = loadSettings(settingsDoc)[key]
                       /\ memSettings'[key] = memSettings[key]]_vars

(***************************************************************************)
(* Claims about backups.                                                   *)
(***************************************************************************)
\* the n largest of a set of stamps
RECURSIVE Largest(_, _)
Largest(stamps, n) ==
    IF n = 0 \/ stamps = {} THEN {}
    ELSE LET top == CHOOSE k \in stamps : \A other \in stamps : k >= other
         IN  {top} \cup Largest(stamps \ {top}, n - 1)

BackupsAreNewestThree ==
    /\ Cardinality(DOMAIN backups) <= 3
    /\ DOMAIN backups = Largest(created, 3)

BackupCreated == createBackup(FALSE) /\ ret'.status = "ok"

\* C10 as stated: after any sequence of createBackup calls the store holds
\* at most 3 backups, the 3 with the largest timestamps of all ever created,
\* the backup just created is among them, and no other key is removed.
C10_AsStated ==
    /\ []BackupsAreNewestThree
    /\ [][BackupCreated
            => /\ clock \in DOMAIN backups'
               /\ UNCHANGED <<txDoc, settingsDoc, versionDoc>>]_vars

\* C10, amended: after any sequence of createBackup calls the store holds at
\* most 3 backups, the 3 with the largest timestamps of all ever created, and
\* no other key is removed; the backup just created is among them when the
\* clock has not been set back behind a backup in the store.
C10_BackupsKeepNewestThree ==
    /\ []BackupsAreNewestThree
    /\ [][BackupCreated
            => /\ (\A stamp \in DOMAIN backups : stamp <= clock) => clock \in DOMAIN backups'
               /\ UNCHANGED <<txDoc, settingsDoc, versionDoc>>]_vars

C10_Witness ==
    /\ ret.op = "createBackup" /\ ret.status = "ok"
    /\ Cardinality(created) > 3
    /\ ret.value = BackupKey(clock)
    /\ DOMAIN backups = {clock, clock - 1, clock - 2}
    /\ txDoc.kind = "list" /\ settingsDoc.kind = "object"

(***************************************************************************)
(* Claims about search.                                                    *)
(***************************************************************************)
\* the pattern occurs in one of the five searchable fields of the record
Occurs(transaction, pattern, ignoreCase) ==
    \E field \in {transaction.description.s, transaction.category.s,
                  ToStringChars(transaction.amount), transaction.date.s,
                  formatCurrency(transaction.amount)} :
        \E index \in 0..Len(field) : MatchesAt(pattern, ignoreCase, field, index)

\* C11: for a non-empty pattern that compiles, searchTransactions returns
\* exactly the records in which the pattern occurs in one of the five
\* searchable fields, in their original order, whatever records precede them.
C11_SearchReturnsEveryMatch ==
    [][\A transactions \in SearchLists, pattern \in CompilingPatterns, ci \in BOOLEAN :
          searchTransactions(transactions, pattern, ci)
              => ret'.value = SelectSeq(transactions, LAMBDA t : Occurs(t, pattern, ci))]_vars

\* C12: when the pattern fails to compile, searchTransactions returns
\* normally with the input list, reports the error, adds nothing to the
\* history and leaves the retained matcher unchanged.
C12_MalformedPatternIsNoOp ==
    [][\A transactions \in SearchLists, pattern \in MalformedPatterns, ci \in BOOLEAN :
          searchTransactions(transactions, pattern, ci)
              => /\ ret'.status = "ok" /\ ret'.value = transactions
                 /\ searchError' = InvalidPatternPrefix \o RegExpSyntaxError(pattern)
                 /\ UNCHANGED <<searchHistory, lastCompiled>>]_vars

C12_Witness ==
    /\ ret.op = "searchTransactions" /\ ret.stage = "compile"
    /\ ret.value = <<LunchBox, Lunch>>
    /\ searchError # <<>>
    /\ Len(searchHistory) = 2 /\ lastCompiled.set /\ lastCompiled.lastIndex > 0

PairOf(item) == <<item.pattern, item.caseInsensitive>>
PairsOf(history) == [i \in 1..Len(history) |-> PairOf(history[i])]

\* the pairs in most-recently-used order once pair was used
UsedMostRecently(pairs, pair) ==
    LET others == SelectSeq(pairs, LAMBDA q : q # pair)
        moved == <<pair>> \o others
    IN  IF Len(moved) > 10 THEN SubSeq(moved, 1, 10) ELSE moved

\* C13: the history is in most-recently-used order: a successful search puts
\* its pair first, the other entries keep their order behind it, and the
\* entry dropped from a full history is the least recently used one.
C13_HistoryMostRecentFirst ==
    [][\A i \in DOMAIN HistoryPairs :
          searchTransactions(<<Lunch>>, HistoryPairs[i][1], HistoryPairs[i][2])
              => PairsOf(searchHistory')
                    = UsedMostRecently(PairsOf(searchHistory), HistoryPairs[i])]_vars

\* C14: the history holds at most 10 entries, no two with the same pair, only
\* non-empty patterns that compile, and each entry's useCount is the number of
\* successful searches with its pair since the entry was inserted.
C14_HistoryWellFormed ==
    /\ Len(searchHistory) <= 10
    /\ \A i, j \in 1..Len(searchHistory) :
          PairOf(searchHistory[i]) = PairOf(searchHistory[j]) => i = j
    /\ \A i \in 1..Len(searchHistory) :
          /\ Trim(searchHistory[i].pattern) # <<>>
          /\ RegExpSyntaxError(searchHistory[i].pattern) = <<>>
          /\ PairOf(searchHistory[i]) \in DOMAIN searchUses
          /\ searchHistory[i].useCount = searchUses[PairOf(searchHistory[i])]

C14_Witness ==
    /\ Len(searchHistory) = 10
    /\ Cardinality(DOMAIN searchUses) = 11
    /\ \E i \in 1..Len(searchHistory) : searchHistory[i].useCount = 2
    /\ ret.op = "searchTransactions" /\ ret.stage = "compile"

(***************************************************************************)
(* Claims about dates.                                                     *)
(***************************************************************************)
\* the string has the shape YYYY-MM-DD and names a day of the calendar
IsCalendarDay(s) ==
    /\ Len(s) = 10
    /\ \A i \in {1, 2, 3, 4, 6, 7, 9, 10} : s[i] \in Digits
    /\ s[5] = "-" /\ s[8] = "-"
    /\ CharsToNat(SubSeq(s, 6, 7)) \in 1..12
    /\ CharsToNat(SubSeq(s, 9, 10))
          \in 1..DaysInMonth(CharsToNat(SubSeq(s, 1, 4)), CharsToNat(SubSeq(s, 6, 7)))

\* C20: validateDate accepts a string exactly when it has the shape
\* YYYY-MM-DD and denotes a real calendar day, whatever the host's time zone.
C20_ValidateDateIsCalendarCheck ==
    ret.op = "validateDate" => (ret.value.valid <=> IsCalendarDay(ret.value.input))

(***************************************************************************)
(* Claims about the statistics                                             *)
(***************************************************************************)
IdSet(transactions) == {transactions[i].id.s : i \in 1..Len(transactions)}

\* C15: a call of calculateStats that follows, by less than the cache
\* timeout, a call with the same set of ids returns the snapshot that call
\* returned, without computing; a call for whose set of ids the cache holds
\* no entry computes a snapshot of its list and stores it.
C15_CacheKeyedByIdSet ==
    [][\A transactions \in StatsLists :
          calculateStats(transactions) =>
            /\ ( /\ ret.op = "calculateStats"
                 /\ IdSet(ret.value.list) = IdSet(transactions)
                 /\ clock - ret.value.at < cacheTimeout )
                 => /\ ~ret'.value.computed
                    /\ ret'.value.snapshot = ret.value.snapshot
            /\ (\A key \in DOMAIN statsCache :
                    IdSet(statsCache[key].data.from) # IdSet(transactions))
                 => /\ ret'.value.computed
                    /\ ret'.value.snapshot = Snapshot(transactions, clock)
                    /\ \E key \in DOMAIN statsCache' :
                          statsCache'[key].data = ret'.value.snapshot]_vars

\* the cache holds, under the key of the list, a snapshot of a list with the
\* same ids and another content
HoldsOutdated(transactions) ==
    LET cacheKey == generateCacheKey(transactions)
    IN  /\ cacheKey \in DOMAIN statsCache
        /\ IdSet(statsCache[cacheKey].data.from) = IdSet(transactions)
        /\ statsCache[cacheKey].data.from # transactions

\* C16: while the entry made before a record's amount or category changed
\* is younger than the cache timeout, calculateStats returns its snapshot;
\* the first call once the entry is that old returns a snapshot of the
\* changed list; no call returns a snapshot computed more than the timeout
\* before the call.
C16_OutdatedWhileFresh ==
    [][\A transactions \in StatsLists :
          calculateStats(transactions) =>
            /\ HoldsOutdated(transactions) =>
                 LET entry == statsCache[generateCacheKey(transactions)]
                 IN  IF clock - entry.timestamp < cacheTimeout
                     THEN ret'.value.snapshot = entry.data
                     ELSE ret'.value.snapshot = Snapshot(transactions, clock)
            /\ clock - ret'.value.snapshot.computedAt <= cacheTimeout]_vars

\* a call has returned the snapshot of the list as it was before the change
C16_Witness ==
    /\ ret.op = "calculateStats"
    /\ ~ret.value.computed
    /\ IdSet(ret.value.snapshot.from) = IdSet(ret.value.list)
    /\ ret.value.snapshot.from # ret.value.list
    /\ ret.value.snapshot.data # computeStats(ret.value.list, ret.value.at)

\* the kind of value a field of a snapshot holds
Shape(value) == IF "kind" \in DOMAIN value THEN value.kind ELSE value.t

ShapedFields ==
    {"totalRecords", "totalAmount", "averageAmount", "categoryTotals", "dailyTrends",
     "weekTrend", "monthlyTotals", "minAmount", "maxAmount", "medianAmount"}

\* C17: computeStats of the empty list returns totalRecords, totalAmount,
\* averageAmount, weekTrend, minAmount, maxAmount and medianAmount 0,
\* topCategory null and seven daily buckets of amount 0 and count 0, and each
\* of its fields holds the kind of value (number, list, mapping) that the
\* field holds in the snapshot of a non-empty list.
C17_EmptySnapshotShapedAlike ==
    (ret.op = "computeStats" /\ ret.value.list = <<>>) =>
        LET stats == ret.value.stats
        IN  /\ \A field \in {"totalRecords", "totalAmount", "averageAmount", "weekTrend",
                             "minAmount", "maxAmount", "medianAmount"} :
                  stats[field] = Whole(0)
            /\ stats.topCategory = JNull
            /\ Shape(stats.dailyTrends) = "list"
            /\ Len(stats.dailyTrends.items) = 7
            /\ \A k \in 1..7 : /\ stats.dailyTrends.items[k].amount = Whole(0)
                               /\ stats.dailyTrends.items[k].count = 0
            /\ \A transactions \in AnalysisLists \ {<<>>} :
                  \A field \in ShapedFields :
                     Shape(stats[field])
                       = Shape(computeStats(transactions, ret.value.at)[field])

\* the year and month of a date string
MonthOf(dateString) == SubSeq(dateString, 1, 7)

\* what the records of the category, dated in the month of the day, amount to
MonthSpend(transactions, category, day) ==
    SumAmounts(SelectSeq(transactions,
                         LAMBDA t : /\ t.category.s = category
                                    /\ MonthOf(t.date.s) = MonthOf(IsoOfDay(day))))

\* C18: for a budget b > 0 of a category and the spending s >= 0 of the
\* current month in that category, analyzeBudgetPerformance gives
\* remaining b - s, percentageUsed min(100 s / b, 100) and the status over
\* from 100 percent, critical from 90, warning from 75, good below; s counts
\* the records of the current month and of the category only.
C18_BudgetPerformance ==
    ret.op = "analyzeBudgetPerformance" =>
        \A category \in DOMAIN ret.value.budgets :
           LET b == ret.value.budgets[category]
               s == MonthSpend(ret.value.list, category, Today(ret.value.at))
               entry == ret.value.analysis[category]
           IN  (b > 0 /\ s >= 0) =>
                 /\ entry.spent = Whole(s)
                 /\ entry.remaining = Whole(b - s)
                 /\ entry.percentageUsed
                      = IF 100 * s >= 100 * b THEN Whole(100) ELSE Quotient(100 * s, b)
                 /\ entry.status
                      = IF 100 * s >= 100 * b THEN "over"
                        ELSE IF 100 * s >= 90 * b THEN "critical"
                        ELSE IF 100 * s >= 75 * b THEN "warning"
                        ELSE "good"

\* a budget met at 90 percent by a list that also holds a record of last month
C18_Witness ==
    /\ ret.op = "analyzeBudgetPerformance"
    /\ ret.value.list = <<Groceries, LastMonthFood>>
    /\ ret.value.budgets[Food] = 10000
    /\ ret.value.analysis[Food].status = "critical"
    /\ ret.value.analysis[Food].percentageUsed = Whole(90)

\* the records dated on or after the instant thirty days before now
TrailingThirtyDays(transactions, now) ==
    SelectSeq(transactions,
              LAMBDA t : (DayOf(t.date.s) - (Today(now) - 30)) * MsPerDay >= TimeOfDay(now))

\* C19: forecastSpending of records with amounts >= 0 returns a confidence
\* that is a number from 0 to 100, a dailyAverage of the total of the
\* trailing thirty days divided by 30 and a forecast of dailyAverage times
\* the horizon; all three are 0 when no record is of the trailing thirty
\* days.
C19_ForecastWithinRange ==
    ret.op = "forecastSpending" =>
        LET recent == TrailingThirtyDays(ret.value.list, ret.value.at)
            result == ret.value.result
        IN  /\ result.confidence.t = "number"
            /\ AtLeast(result.confidence, 0)
            /\ result.confidence.num <= 100 * result.confidence.den
            /\ result.dailyAverage = Quotient(SumAmounts(recent), 30)
            /\ result.forecast = Quotient(SumAmounts(recent) * ret.value.days, 30)
            /\ recent = <<>> =>
                 /\ result.confidence = Whole(0)
                 /\ result.dailyAverage = Whole(0)
                 /\ result.forecast = Whole(0)

(***************************************************************************)
(* Claims about CSV                                                        *)
(***************************************************************************)
\* a record both validators accept
ValidRecord(t) == ValidatorsValidateTransaction(t, 0) /\ StoreValidateTransaction(t)

CsvFields == {"id", "date", "description", "amount", "category", "createdAt", "updatedAt"}

\* C21: for a non-empty list L of valid transactions, whose descriptions may
\* hold commas and double quotes, importFromCSV(exportToCSV(L)) returns a
\* list as long as L whose records equal those of L in each of the seven
\* fields, in the same order.
C21_CsvRoundTrip ==
    (ret.op = "exportImport" /\ \A i \in 1..Len(ret.value.list) : ValidRecord(ret.value.list[i]))
      => /\ ~ret.value.imported.threw
         /\ Len(ret.value.imported.transactions) = Len(ret.value.list)
         /\ \A i \in 1..Len(ret.value.list) :
               \A field \in CsvFields :
                  ret.value.imported.transactions[i][field] = ret.value.list[i][field]

\* C22: a record whose description holds a line break is exported as a
\* quoted field that parseCSV reads as part of one row, and imported back as
\* one record with the same description.
C22_QuotedLineBreakKept ==
    ( /\ ret.op = "exportImport"
      /\ Len(ret.value.list) = 1
      /\ Includes(ret.value.list[1].description.s, "\n") )
      => /\ Len(ret.value.lines) = 2
         /\ ret.value.lines[2][3] = ret.value.list[1].description.s
         /\ Len(ret.value.imported.transactions) = 1
         /\ ret.value.imported.transactions[1].description = ret.value.list[1].description

(***************************************************************************)
(* Claims about the combined search and the matcher                        *)
(***************************************************************************)
\* the record satisfies every criterion that is supplied
Satisfies(t, criteria) ==
    /\ (Truthy(criteria.text) /\ RegExpSyntaxError(criteria.text.s) = <<>>)
          => Occurs(t, criteria.text.s, criteria.caseInsensitive)
    /\ criteria.minAmount # NotSupplied => criteria.minAmount.n <= t.amount.n
    /\ criteria.maxAmount # NotSupplied => t.amount.n <= criteria.maxAmount.n
    /\ criteria.startDate # NotSupplied => DayOf(criteria.startDate.s) <= DayOf(t.date.s)
    /\ criteria.endDate # NotSupplied => DayOf(t.date.s) <= DayOf(criteria.endDate.s)
    /\ criteria.categories # {} => t.category.s \in criteria.categories

\* C23: advancedSearch returns exactly the records that satisfy every
\* supplied filter at once, in their original order: the text pattern
\* occurs, the amount is within the inclusive bounds (a bound of 0 is
\* supplied), the date is within the inclusive bounds, the category is in the
\* set; a filter that is not supplied excludes nothing.
C23_AdvancedSearchIsConjunction ==
    ret.op = "advancedSearch" =>
        ret.value.results
          = SelectSeq(ret.value.list, LAMBDA t : Satisfies(t, ret.value.criteria))
\* C26: one matcher at most is retained, that of the latest successful
\* compilation; a call with the pattern and the case flag of the retained
\* matcher gets that matcher and nothing is compiled; any other call gets a
\* matcher compiled for its own pattern and flag, or none.
C26_OneMatcherRetained ==
    [][\A pattern \in SearchPatterns, caseInsensitive \in BOOLEAN :
          CompileRegexCall(pattern, caseInsensitive) =>
            LET call == ret'.value
            IN  /\ lastCompiled' = IF call.ok THEN call.regex ELSE lastCompiled
                /\ IF /\ lastCompiled.set
                      /\ lastCompiled.pattern = pattern
                      /\ lastCompiled.ignoreCase = caseInsensitive
                   THEN call.ok /\ ~call.compiled /\ call.regex = lastCompiled
                   ELSE call.ok => /\ call.compiled
                                   /\ call.regex.pattern = pattern
                                   /\ call.regex.ignoreCase = caseInsensitive]_vars

\* the retained matcher was asked for again, and once with the other flag
C26_Witness ==
    /\ ret.op = "compileRegex"
    /\ ret.value.ok /\ ~ret.value.compiled
    /\ ret.value.regex = lastCompiled
    /\ lastCompiled.lastIndex > 0

\* C27: a search repeated with the same list, pattern and case flag returns
\* the list the search before it returned.
C27_RepeatedSearchSameResult ==
    [][\A query \in CompilingPatterns, caseInsensitive \in BOOLEAN :
          ( /\ handleSearch(query, caseInsensitive)
            /\ ret.op = "searchTransactions" /\ ret.stage = "filter"
            /\ lastCompiled.pattern = query
            /\ lastCompiled.ignoreCase = caseInsensitive )
            => ret'.value = ret.value]_vars

(***************************************************************************)
(* The coordinator's operations on the list (unnamed/part_000) over the    *)
(* state manager (unnamed/part_001) and the store.  The statistics cache   *)
(* and the search history that the redrawing of the page goes through are  *)
(* left as they are here; they are followed in the specifications of the   *)
(* engines.                                                                *)
(***************************************************************************)
\* new Date().toISOString() at the clock's minute
StampAt(c) ==
    SubSeq(IsoStamp, 1, 14) \o <<DigitChar((c \div 10) % 6), DigitChar(c % 10), "Z">>

\* the shape toISOString writes, as the model abbreviates it
StampShaped(s) ==
    /\ Len(s) = Len(IsoStamp)
    /\ PatternDate(SubSeq(s, 1, 10))
    /\ s[11] = "T" /\ s[14] = ":" /\ s[17] = "Z"
    /\ \A i \in {12, 13, 15, 16} : s[i] \in Digits

\* new Date(value).getTime(): the minutes it stands for, or no time
\* (Invalid Date)
NoTime == [valid |-> FALSE, time |-> 0]
DateTime(value) ==
    CASE value.t = "string" /\ StampShaped(value.s) ->
             [valid |-> TRUE,
              time |-> DayOf(SubSeq(value.s, 1, 10)) * 1440
                          + CharsToNat(SubSeq(value.s, 12, 13)) * 60
                          + CharsToNat(SubSeq(value.s, 15, 16))]
      [] value.t = "null" -> [valid |-> TRUE, time |-> 0]
      [] value.t = "number" -> [valid |-> TRUE, time |-> value.n]
      [] OTHER -> NoTime

\* 'txn_' + Date.now() + '_' + Math.random().toString(36).substr(2, 9), the
\* random part taken as one value
RandomParts == {"a"}
generateId(c, random) == <<"t", "x", "n", "_", DigitChar(c % 10), "_", random>>

\* the ids of the records of a list (an element that is no object has none)
IdsOf(items) == {items[i].id : i \in {j \in 1..Len(items) : items[j].kind = "object"}}

\* this.transactions.findIndex(t => t.id === id): the index, 0 when there is
\* none (-1 in the code); reading the id of a null element throws
FirstWithId(items, id) ==
    LET hits == {i \in 1..Len(items) : items[i].kind = "object" /\ items[i].id = JStr(id)}
    IN  IF hits = {} THEN 0 ELSE CHOOSE i \in hits : \A j \in hits : i <= j
FindIndexThrows(items, id) ==
    LET upTo == IF FirstWithId(items, id) = 0 THEN Len(items) ELSE FirstWithId(items, id)
    IN  \E i \in 1..upTo : items[i].kind = "null"

TransactionNotFoundError == [name |-> "Error", message |-> "Transaction not found"]

\* getFormData(): what a form that passed validateForm holds
FormData(description, amount, category, date) ==
    [description |-> JStr(description), amount |-> amount, category |-> JStr(category),
     date |-> JStr(date)]

\* { ...record, ...data }
SpreadForm(record, data) ==
    [record EXCEPT !.description = data.description, !.amount = data.amount,
                   !.category = data.category, !.date = data.date]

\* storage.saveTransactions(state.getTransactions()) at the end of an
\* operation that left the list as list; what the handler's catch reports
SaveAfter(op, list) ==
    LET saved == SaveTransactionsResult(ListArg(list), "none", txDoc, Used, quota)
    IN  /\ memTx' = list
        /\ txDoc' = saved.doc
        /\ lastSaved' = IF saved.ret.status = "ok" THEN [set |-> TRUE, items |-> list]
                        ELSE lastSaved
        /\ ret' = IF saved.ret.status = "ok" THEN Returned(op, <<>>)
                  ELSE Reported(op, saved.ret.error)

\* handleFormSubmit() of a valid form with no editingId: addTransaction(data)
AppAddTransaction(data, random) ==
    LET transaction ==
            [kind |-> "object", id |-> JStr(generateId(clock, random)),
             description |-> data.description, amount |-> data.amount,
             category |-> data.category, date |-> data.date,
             createdAt |-> JStr(StampAt(clock)), updatedAt |-> JStr(StampAt(clock))]
    IN  /\ SaveAfter("app.addTransaction", Append(memTx, transaction))
        /\ UNCHANGED <<settingsDoc, versionDoc, backups, hostVars, clock, memSettings,
                       created, engineVars>>

\* handleFormSubmit() of a valid form with editingId id:
\* updateTransaction(id, data)
AppUpdateTransaction(id, data) ==
    LET index == FirstWithId(memTx, id)
        updatedTransaction ==
            [SpreadForm(memTx[index], data) EXCEPT !.updatedAt = JStr(StampAt(clock))]
    IN  /\ IF FindIndexThrows(memTx, id)
           THEN /\ ret' = Reported("app.updateTransaction", NullPropertyTypeError)
                /\ UNCHANGED <<txDoc, memTx, lastSaved>>
           ELSE IF index = 0
           THEN /\ ret' = Reported("app.updateTransaction", TransactionNotFoundError)
                /\ UNCHANGED <<txDoc, memTx, lastSaved>>
           ELSE SaveAfter("app.updateTransaction",
                          [memTx EXCEPT ![index] = updatedTransaction])
        /\ UNCHANGED <<settingsDoc, versionDoc, backups, hostVars, clock, memSettings,
                       created, engineVars>>

\* deleteTransaction(id), confirmed
AppDeleteTransaction(id) ==
    LET index == FirstWithId(memTx, id)
    IN  /\ IF FindIndexThrows(memTx, id)
           THEN /\ ret' = Reported("app.deleteTransaction", NullPropertyTypeError)
                /\ UNCHANGED <<txDoc, memTx, lastSaved>>
           ELSE IF index = 0
           THEN /\ ret' = Reported("app.deleteTransaction", TransactionNotFoundError)
                /\ UNCHANGED <<txDoc, memTx, lastSaved>>
           ELSE SaveAfter("app.deleteTransaction",
                          SubSeq(memTx, 1, index - 1) \o SubSeq(memTx, index + 1, Len(memTx)))
        /\ UNCHANGED <<settingsDoc, versionDoc, backups, hostVars, clock, memSettings,
                       created, engineVars>>

\* clearAllData(), confirmed: state.clearTransactions() and
\* storage.clearTransactions()
AppClearAllData ==
    /\ memTx' = <<>>
    /\ txDoc' = AbsentDoc
    /\ lastSaved' = NotSaved
    /\ ret' = Returned("app.clearAllData", <<>>)
    /\ UNCHANGED <<settingsDoc, versionDoc, backups, hostVars, clock, memSettings, created,
                   engineVars>>

\* loadData() at the start of the application
AppLoadData ==
    /\ memTx' = LoadTransactionsResult(txDoc)
    /\ memSettings' = loadSettings(settingsDoc)
    /\ ret' = Returned("app.loadData", <<>>)
    /\ UNCHANGED <<storeVars, hostVars, clock, lastSaved, created, engineVars>>

(***************************************************************************)
(* The coordinator at work: records are added, edited and deleted through  *)
(* the form, files are imported, the data is cleared and loaded again,     *)
(* while the clock advances; the store has room for anything or for one    *)
(* record and the probe of another.                                        *)
(***************************************************************************)
MaxRecords == 2
MaxMinutes == 2

Coffee == FormData(<<"C", "o", "f", "f", "e", "e">>, JNum(3500), Food, Date20251015)
Atlas == FormData(<<"A", "t", "l", "a", "s">>, JNum(40000), Books, Date20251015)
Forms == {Coffee, Atlas}

\* a record of another file with the id of Lunch
LunchAgain == [Novel EXCEPT !.id = Lunch.id]
\* a record whose last change is dated before its creation
ChangedBeforeCreated ==
    [Novel EXCEPT !.createdAt = JStr(StampAt(2)), !.updatedAt = JStr(StampAt(1))]

ImportedLists ==
    {<<Lunch, LunchAgain>>, <<GarbageUpdatedAt>>, <<ChangedBeforeCreated>>,
     <<Novel, Negative>>, <<Novel, NullElement>>}
ImportedFiles ==
    {Payload("object", TxPart("array", JsonItems(list)), SettingsPart("absent", EmptySettings)) :
        list \in ImportedLists}

UnknownId == <<"t", "9">>
IdsInMemory == {id.s : id \in {v \in IdsOf(memTx) : v.t = "string"}}

InitApp ==
    /\ txDoc \in {AbsentDoc, ListDoc(JsonItems(<<Lunch>>))}
    /\ quota \in {TransactionsKeyLen + OneRecordLen + TestKeyLen + OneRecordLen, AmpleQuota}
    /\ settingsDoc = AbsentSettingsDoc
    /\ versionDoc = CurrentVersion
    /\ backups = NoBackups
    /\ clock = 0
    /\ tzOffset = 0
    /\ memTx = LoadTransactionsResult(txDoc)
    /\ memSettings = loadSettings(settingsDoc)
    /\ ret = Returned("", <<>>)
    /\ lastSaved = NotSaved
    /\ created = {}
    /\ EnginesConstructed

NextApp ==
    \/ \E data \in Forms, random \in RandomParts :
          /\ Len(memTx) < MaxRecords
          /\ JStr(generateId(clock, random)) \notin IdsOf(memTx)
          /\ AppAddTransaction(data, random)
    \/ \E id \in IdsInMemory \cup {UnknownId}, data \in Forms : AppUpdateTransaction(id, data)
    \/ \E id \in IdsInMemory \cup {UnknownId} : AppDeleteTransaction(id)
    \/ \E data \in ImportedFiles : AppImportData(data)
    \/ AppClearAllData
    \/ AppLoadData
    \/ clock < MaxMinutes /\ Tick

SpecApp == InitApp /\ [][NextApp]_vars

(***************************************************************************)
(* The list in memory and the stored list, after the coordinator's         *)
(* operations                                                              *)
(***************************************************************************)
\* the records the stored document holds
StoredRecords == IF txDoc.kind = "list" THEN txDoc.items ELSE <<>>

NoSharedId(items) ==
    \A i, j \in 1..Len(items) :
        (i # j /\ items[i].kind = "object" /\ items[j].kind = "object")
            => items[i].id # items[j].id

\* C24: after any sequence of the coordinator's operations (add, update,
\* delete, import) no two transactions, in memory or stored, share an id
C24_IdsUnique == NoSharedId(memTx) /\ NoSharedId(StoredRecords)

\* C24, its second part: an update changes neither the id nor the createdAt
\* of the record it edits
C24_UpdateKeepsIdentity ==
    [][\A id \in IdsInMemory, data \in Forms :
          (AppUpdateTransaction(id, data) /\ ret'.status = "ok")
              => /\ Len(memTx') = Len(memTx)
                 /\ \A i \in 1..Len(memTx) :
                       /\ memTx'[i].id = memTx[i].id
                       /\ memTx'[i].createdAt = memTx[i].createdAt]_vars

C24_UpdateWitness ==
    /\ ret.op = "app.updateTransaction" /\ ret.status = "ok"
    /\ \E i \in 1..Len(memTx) : memTx[i].updatedAt # memTx[i].createdAt

TimestampsInOrder(t) ==
    t.kind = "object"
        => /\ DateTime(t.createdAt).valid
           /\ DateTime(t.updatedAt).valid
           /\ DateTime(t.updatedAt).time >= DateTime(t.createdAt).time

\* C25: every transaction in memory or persisted after an add, update,
\* import or load has a createdAt and an updatedAt that parse as dates, the
\* updatedAt not before the createdAt
C25_TimestampsParseInOrder ==
    /\ \A i \in 1..Len(memTx) : TimestampsInOrder(memTx[i])
    /\ \A i \in 1..Len(StoredRecords) : TimestampsInOrder(StoredRecords[i])

\* C28: after every completed operation of the coordinator on the
\* transactions (add, update, delete, import, clear), whether it succeeded
\* or reported an error, the list in memory is the list loadTransactions
\* would return
C28_MemoryIsWhatLoads ==
    ret.op \in {"app.addTransaction", "app.updateTransaction", "app.deleteTransaction",
                "app.importData", "app.clearAllData"}
        => memTx = LoadTransactionsResult(txDoc)

(***************************************************************************)
(* The announcers of the page (unnamed/part_000): announceStatus and       *)
(* announceError write a message and start a timer that empties the        *)
(* announcer.  In the specifications of the coordinator's operations the   *)
(* message an operation ends with is what ret records (Returned: the       *)
(* status message, Reported: showError); how the announcers hold and drop  *)
(* the messages is followed here, with the clock in milliseconds.  A timer *)
(* runs at its due time, before anything else that happens at that time.   *)
(***************************************************************************)
StatusDelay == 1000
AlertDelay == 3000
Delay(a) == IF a = "status" THEN StatusDelay ELSE AlertDelay

DueTimers == {t \in timers : t.due <= clock}

\* announcer.textContent = message; setTimeout(() => { ... }, delay)
Announce(op, a, message) ==
    /\ DueTimers = {}
    /\ announcers' = [announcers EXCEPT ![a] = [textContent |-> message, since |-> clock]]
    /\ timers' = timers \cup {[announcer |-> a, due |-> clock + Delay(a)]}
    /\ ret' = Returned(op, message)
    /\ UNCHANGED <<storeVars, hostVars, clock, memVars, lastSaved, created, searchVars,
                   statsCache, observers>>

announceStatus(message) == Announce("announceStatus", "status", message)
announceError(message) == Announce("announceError", "alert", message)

\* the callback of a timer: announcer.textContent = ''
TimerFires(t) ==
    /\ t \in DueTimers
    /\ announcers' = [announcers EXCEPT ![t.announcer] = [textContent |-> "", since |-> 0]]
    /\ timers' = timers \ {t}
    /\ ret' = Returned("timer", [announcer |-> t.announcer,
                                 cleared |-> announcers[t.announcer].textContent,
                                 shownFor |-> clock - announcers[t.announcer].since])
    /\ UNCHANGED <<storeVars, hostVars, clock, memVars, lastSaved, created, searchVars,
                   statsCache, observers>>

\* half a status delay passes, no timer being due before the end of it
MaxWaits == 8
HalfDelay == StatusDelay \div 2
Wait ==
    /\ clock < MaxWaits * HalfDelay
    /\ \A t \in timers : t.due >= clock + HalfDelay
    /\ clock' = clock + HalfDelay
    /\ UNCHANGED <<storeVars, hostVars, memVars, ret, lastSaved, created, engineVars>>

StatusMessages == {"Transaction added successfully", "Transaction deleted successfully"}
ErrorMessages == {"Failed to save transaction. Please try again."}

NextAnnounce ==
    \/ \E message \in StatusMessages : announceStatus(message)
    \/ \E message \in ErrorMessages : announceError(message)
    \/ \E t \in timers : TimerFires(t)
    \/ Wait

SpecAnnounce == InitSearch /\ [][NextAnnounce]_vars

\* C29: a message announced through announceStatus (1 s) or announceError
\* (3 s) stays in its announcer for its whole delay unless a later message
\* overwrites it and is cleared when the delay has elapsed; the timer of an
\* earlier message never clears a later message before the later message's
\* own delay has elapsed
C29_MessageKeptForItsDelay ==
    /\ \A a \in DOMAIN announcers :
          announcers[a].textContent # "" => clock - announcers[a].since <= Delay(a)
    /\ (ret.op = "timer" /\ ret.value.cleared # "")
          => ret.value.shownFor >= Delay(ret.value.announcer)

(***************************************************************************)
(* The state manager's observers (unnamed/part_001).  A callback is known  *)
(* by its name: "render" returns, "faulty" throws, "once" unsubscribes     *)
(* itself from the event when it is invoked and returns.  What a mutation  *)
(* returned holds the invocations it made, in order, each with what the    *)
(* callback was given.                                                     *)
(***************************************************************************)
Callbacks == {"render", "faulty", "once"}

\* this.observers[event], nothing when the event has no list yet
Subscribed(obs, event) == IF event \in DOMAIN obs THEN obs[event] ELSE <<>>

\* subscribe(event, callback)
subscribe(event, callback) ==
    /\ observers' = [e \in DOMAIN observers \cup {event} |->
                        IF e = event THEN Append(Subscribed(observers, event), callback)
                        ELSE observers[e]]
    /\ ret' = Returned("subscribe", [event |-> event, callback |-> callback])
    /\ UNCHANGED <<storeVars, hostVars, clock, memVars, lastSaved, created, searchVars,
                   statsCache, announcers, timers>>

\* this.observers[event].filter(cb => cb !== callback)
Unsubscribed(obs, event, callback) ==
    IF event \in DOMAIN obs
    THEN [obs EXCEPT ![event] = SelectSeq(obs[event], LAMBDA cb : cb # callback)]
    ELSE obs

\* unsubscribe(event, callback)
unsubscribe(event, callback) ==
    /\ observers' = Unsubscribed(observers, event, callback)
    /\ ret' = Returned("unsubscribe", [event |-> event, callback |-> callback])
    /\ UNCHANGED <<storeVars, hostVars, clock, memVars, lastSaved, created, searchVars,
                   statsCache, announcers, timers>>

\* the forEach of notifyObservers from the i-th callback of the list it
\* began with: the invocations made so far, the observers as the callbacks
\* left them, and whether a callback's error went past the loop
RECURSIVE ForEachCallback(_, _, _, _, _, _)
ForEachCallback(callbacks, i, event, data, guarded, state) ==
    IF i > Len(callbacks) \/ state.propagated THEN state
    ELSE LET callback == callbacks[i]
             invoked == Append(state.invoked, [callback |-> callback, data |-> data])
             obs == IF callback = "once" THEN Unsubscribed(state.observers, event, callback)
                    ELSE state.observers
         IN  ForEachCallback(callbacks, i + 1, event, data, guarded,
                             [invoked |-> invoked, observers |-> obs,
                              propagated |-> callback = "faulty" /\ ~guarded])

\* notifyObservers without the try around the callback
notifyObserversUnguarded(obs, event, data) ==
    ForEachCallback(Subscribed(obs, event), 1, event, data, FALSE,
                    [invoked |-> <<>>, observers |-> obs, propagated |-> FALSE])

\* notifyObservers(event, data)
notifyObservers(obs, event, data) ==
    ForEachCallback(Subscribed(obs, event), 1, event, data, TRUE,
                    [invoked |-> <<>>, observers |-> obs, propagated |-> FALSE])

CallbackError == [name |-> "Error", message |-> "observer failed"]
InvalidTransactionError == [name |-> "Error", message |-> "Invalid transaction"]

\* a method of the state manager that threw before it changed anything
StateThrew(op, event, error) ==
    /\ ret' = [Threw(op, error, "", "") EXCEPT !.value = [event |-> event, invoked |-> <<>>]]
    /\ UNCHANGED <<memVars, observers>>

\* a method that left the list as list and called
\* notifyObservers('transactions', this.transactions)
TransactionsChanged(op, list) ==
    LET notified == notifyObservers(observers, "transactions", list)
    IN  /\ memTx' = list
        /\ observers' = notified.observers
        /\ ret' = IF notified.propagated
                  THEN [Threw(op, CallbackError, "", "")
                           EXCEPT !.value = [event |-> "transactions",
                                             invoked |-> notified.invoked]]
                  ELSE Returned(op, [event |-> "transactions", invoked |-> notified.invoked])
        /\ UNCHANGED memSettings

StateUnchanged ==
    UNCHANGED <<storeVars, hostVars, clock, lastSaved, created, searchVars, statsCache,
                announcers, timers>>

\* StateManager.setTransactions(transactions), for an array
StateSetTransactions(list) ==
    TransactionsChanged("state.setTransactions", list) /\ StateUnchanged

\* StateManager.addTransaction(transaction)
StateAddTransaction(transaction) ==
    /\ IF transaction.kind = "null" \/ ~Truthy(transaction.id)
       THEN StateThrew("state.addTransaction", "transactions", InvalidTransactionError)
       ELSE TransactionsChanged("state.addTransaction", Append(memTx, transaction))
    /\ StateUnchanged

\* StateManager.updateTransaction(id, updatedTransaction)
StateUpdateTransaction(id, updatedTransaction) ==
    LET index == FirstWithId(memTx, id)
    IN  /\ IF FindIndexThrows(memTx, id)
           THEN StateThrew("state.updateTransaction", "transactions", NullPropertyTypeError)
           ELSE IF index = 0
           THEN StateThrew("state.updateTransaction", "transactions",
                           TransactionNotFoundError)
           ELSE TransactionsChanged("state.updateTransaction",
                                    [memTx EXCEPT ![index] = updatedTransaction])
        /\ StateUnchanged

\* StateManager.deleteTransaction(id)
StateDeleteTransaction(id) ==
    LET index == FirstWithId(memTx, id)
    IN  /\ IF FindIndexThrows(memTx, id)
           THEN StateThrew("state.deleteTransaction", "transactions", NullPropertyTypeError)
           ELSE IF index = 0
           THEN StateThrew("state.deleteTransaction", "transactions",
                           TransactionNotFoundError)
           ELSE TransactionsChanged("state.deleteTransaction",
                                    SubSeq(memTx, 1, index - 1)
                                        \o SubSeq(memTx, index + 1, Len(memTx)))
        /\ StateUnchanged

\* StateManager.clearTransactions()
StateClearTransactions ==
    TransactionsChanged("state.clearTransactions", <<>>) /\ StateUnchanged

\* StateManager.setSpendingCap(amount)
StateSetSpendingCap(amount) ==
    LET settings == [memSettings EXCEPT !.spendingCap = amount]
        notified == notifyObservers(observers, "settings", settings)
    IN  /\ memSettings' = settings
        /\ observers' = notified.observers
        /\ ret' = IF notified.propagated
                  THEN [Threw("state.setSpendingCap", CallbackError, "", "")
                           EXCEPT !.value = [event |-> "settings",
                                             invoked |-> notified.invoked]]
                  ELSE Returned("state.setSpendingCap",
                                [event |-> "settings", invoked |-> notified.invoked])
        /\ UNCHANGED memTx
        /\ StateUnchanged

(***************************************************************************)
(* The state manager with observers: callbacks are subscribed, some of     *)
(* them twice, and unsubscribed, while the list and the settings change.   *)
(***************************************************************************)
MaxObservers == 2

\* who subscribes to what
Subscriptions ==
    {<<"transactions", callback>> : callback \in Callbacks} \cup {<<"settings", "render">>}

StateLists == {<<Lunch, Novel>>}
AddedSamples == {Novel, MissingId, NullElement}

StateMutation ==
    \/ \E list \in StateLists : StateSetTransactions(list)
    \/ \E transaction \in AddedSamples :
          Len(memTx) < MaxRecords /\ StateAddTransaction(transaction)
    \/ \E id \in IdsInMemory \cup {UnknownId} :
          StateUpdateTransaction(id, [LunchBox EXCEPT !.id = JStr(id)])
    \/ \E id \in IdsInMemory \cup {UnknownId} : StateDeleteTransaction(id)
    \/ StateClearTransactions
    \/ \E amount \in {JNum(20000)} : StateSetSpendingCap(amount)

NextObservers ==
    \/ StateMutation
    \/ \E s \in Subscriptions :
          Len(Subscribed(observers, s[1])) < MaxObservers /\ subscribe(s[1], s[2])
    \/ \E s \in Subscriptions : unsubscribe(s[1], s[2])

SpecObservers == InitSearch /\ [][NextObservers]_vars

\* how often the callback is among the invocations
TimesInvoked(invoked, callback) ==
    Cardinality({i \in 1..Len(invoked) : invoked[i].callback = callback})

\* the callbacks among the subscriptions
CallbacksOf(subscriptions) == {subscriptions[i] : i \in 1..Len(subscriptions)}

\* C30, as stated: for every mutation of the state manager each callback
\* subscribed to the event and not since unsubscribed is invoked exactly
\* once
C30_EachCallbackOnce ==
    [][(StateMutation /\ ret'.status = "ok")
          => \A callback \in CallbacksOf(Subscribed(observers, ret'.value.event)) :
                TimesInvoked(ret'.value.invoked, callback) = 1]_vars

\* C30, amended: for every mutation of the state manager the callbacks are
\* invoked once for each subscription they hold to the event when the
\* mutation is made (a callback subscribed twice is invoked twice), in
\* subscription order, each given the state after the mutation; a callback
\* that throws neither stops the remaining ones nor reaches the caller; a
\* method that throws (updateTransaction and deleteTransaction on an
\* unknown id, addTransaction of a transaction without id) changes neither
\* the list nor the observers and invokes no one
C30_InvokedPerSubscription ==
    [][StateMutation
          => LET event == ret'.value.event
                 invoked == ret'.value.invoked
             IN  IF ret'.status = "throw"
                 THEN /\ ret'.error \in {TransactionNotFoundError, InvalidTransactionError,
                                         NullPropertyTypeError}
                      /\ invoked = <<>>
                      /\ UNCHANGED <<memTx, memSettings, observers>>
                 ELSE /\ [i \in 1..Len(invoked) |-> invoked[i].callback]
                            = Subscribed(observers, event)
                      /\ \A i \in 1..Len(invoked) :
                            invoked[i].data = IF event = "transactions" THEN memTx'
                                              ELSE memSettings'
                      /\ ~StateUpdateTransaction(UnknownId,
                                                 [LunchBox EXCEPT !.id = JStr(UnknownId)])
                      /\ ~StateDeleteTransaction(UnknownId)]_vars

C30_Witness ==
    /\ ret.op = "state.updateTransaction"
    /\ ret.status = "ok"
    /\ Len(ret.value.invoked) = 2
    /\ ret.value.invoked[1].callback = "faulty"
    /\ ret.value.invoked[2].callback = "render"
    /\ ret.value.invoked[2].data = memTx

====
